---------------------------- MODULE Spec2Model ----------------------------
(***************************************************************************)
(* Order / checkout / stock-reconciliation slice of the DaingGrader        *)
(* backend (src/backend/server.py, src/backend/paymongo.py).               *)
(*                                                                         *)
(* The document store is modelled collection by collection:                *)
(*   products  product id -> product document                              *)
(*   carts     user id    -> list of cart lines                            *)
(*   orders    list of order documents (an order id is its index)          *)
(* Each HTTP handler is one action; every action records the response it   *)
(* returns in resp.  Money is kept in whole currency units.                *)
(***************************************************************************)
EXTENDS Integers, Sequences, FiniteSets, TLC

VARIABLES products, nextPid, carts, orders, gatewayCalls, deductions, reqs,
          resp, vouchers, audit, users, clock, firebase, faults, mail

vars == <<products, nextPid, carts, orders, gatewayCalls, deductions, reqs,
          resp, vouchers, audit, users, clock, firebase, faults, mail>>

(***************************************************************************)
(* Bounds of the model.                                                    *)
(***************************************************************************)
MaxProducts == 4
MaxOrders == 2
MaxCartQty == 3
MaxStock == 2
MaxGatewayCalls == 1
MaxReqs == 2
MaxPriorOrders == 1
MaxDeductions == 2
MaxUses == 2
MaxTime == 3
MaxClock == 3
MaxVouchers == 2

(***************************************************************************)
(* Actors.  A user document carries a role; the handlers dispatch on it.   *)
(***************************************************************************)
Buyers == {"u1", "u2"}
Sellers == {"s1", "s2", "s3"}
Admins == {"admin"}
Users == Buyers \cup Sellers \cup Admins

Role(u) == IF u \in Sellers THEN "seller" ELSE IF u \in Admins THEN "admin" ELSE "user"

NULL == "null"
NOW == "now"

Max(a, b) == IF a >= b THEN a ELSE b

RECURSIVE SumSeq(_)
SumSeq(s) == IF s = <<>> THEN 0 ELSE Head(s) + SumSeq(Tail(s))

(* str.lower() on the payment-method strings the model sends.              *)
Lower(s) ==
  CASE s = "COD" -> "cod"
    [] s = "PayMongo" -> "paymongo"
    [] OTHER -> s

PaymentMethods == {"cod", "COD", "paymongo", "PayMongo", "gcash"}

(***************************************************************************)
(* Responses.                                                              *)
(***************************************************************************)
Resp(op, code, actor) ==
  [op |-> op, code |-> code, actor |-> actor, order |-> 0, status |-> "",
   filter |-> "", method |-> "", created |-> 0, deducted |-> FALSE,
   intent |-> 0]

(* A rejected request: the HTTP error code is all the caller learns.        *)
Err(op, code) == Resp(op, code, "")

(***************************************************************************)
(* Audit log: _log_audit_event.  The log is append-only and no handler     *)
(* reads it, so the model keeps the entries the last request appended.     *)
(***************************************************************************)
AuditEvent(actor, role, action, entity_id, details) ==
  [actor |-> actor, role |-> role, action |-> action,
   entity_id |-> entity_id, details |-> details]

Audited(code, event) ==
  IF code = 200 /\ "audit" \notin faults THEN <<event>> ELSE <<>>

(***************************************************************************)
(* Best-effort side effects.  faults is the set of collaborators that      *)
(* raise when called: the receipt PDF builder, the mail sender, the audit  *)
(* collection.  Each call sits in a try / except that prints the error and *)
(* lets the request go on with the outcome it had.                         *)
(***************************************************************************)
Services == {"pdf", "email", "audit"}

(* The except clause re-raising instead of printing.                       *)
BestEffort_Raises(code, failed) == IF failed THEN 500 ELSE code

BestEffort(code, failed) == code

Mail(to, kind, order) == [to |-> to, kind |-> kind, order |-> order]

(* Receipt of one created order: the PDF is built, then mailed to the      *)
(* buyer and to the seller when that is another address.                   *)
OrderReceiptMails(u, seller, id) ==
  IF "pdf" \in faults \/ "email" \in faults
  THEN <<>>
  ELSE <<Mail(u, "receipt", id)>>
         \o (IF seller # u THEN <<Mail(seller, "receipt", id)>> ELSE <<>>)

RECURSIVE ReceiptMails(_, _, _)
ReceiptMails(u, created, first) ==
  IF created = <<>>
  THEN <<>>
  ELSE OrderReceiptMails(u, Head(created).seller_id, first)
         \o ReceiptMails(u, Tail(created), first + 1)

(* Notification of the buyer when an order is shipped or cancelled by the  *)
(* seller.  A truth test of the collection object that raises is one of    *)
(* the failures "email" stands for.                                        *)
StatusMails(status, buyer, o) ==
  IF status \in {"shipped", "cancelled"} /\ "email" \notin faults
  THEN <<Mail(buyer, status, o)>>
  ELSE <<>>

(* Notification of the account owner by toggle_user_status.                *)
AccountMails(target, new_status) ==
  IF "email" \notin faults
  THEN <<Mail(target, IF new_status = "inactive" THEN "account_disabled"
                      ELSE "account_enabled", 0)>>
  ELSE <<>>


(***************************************************************************)
(* Product documents.                                                      *)
(***************************************************************************)
Product(seller, price, stock, status) ==
  [seller_id |-> seller, name |-> "Daing", price |-> price,
   stock_qty |-> stock, status |-> status, is_disabled |-> FALSE,
   sold_count |-> 0]

(***************************************************************************)
(* User accounts: toggle_user_status, _compute_reactivate_at and the       *)
(* check-on-access of _get_current_user.  Time is counted in days; an ISO  *)
(* timestamp string is the day it denotes together with whether it carries *)
(* a UTC offset, and NoTime is the empty string.  The server's own         *)
(* timestamps (utcnow().isoformat()) carry no offset.                      *)
(***************************************************************************)
NoTime == [day |-> 0, aware |-> FALSE]

Timestamp(day) == [day |-> day, aware |-> FALSE]

UserDoc(status, reason, duration, reactivate_at) ==
  [status |-> status, deactivation_reason |-> reason,
   deactivation_duration |-> duration, reactivate_at |-> reactivate_at]

(* A duration string of the request body: one of the tokens, or a custom   *)
(* string.  parses: datetime.fromisoformat accepts the string, giving the  *)
(* day it denotes and whether it carries an offset.                        *)
Duration(text, parses, day, aware) ==
  [text |-> text, parses |-> parses, day |-> day, aware |-> aware]

NoDuration == Duration("", FALSE, 0, FALSE)

ActiveUser == UserDoc("active", "", NoDuration, NoTime)

DurationTokens == {"1d", "3d", "7d", "14d", "30d"}

DurationDays(text) ==
  CASE text = "1d" -> 1
    [] text = "3d" -> 3
    [] text = "7d" -> 7
    [] text = "14d" -> 14
    [] text = "30d" -> 30

(* dt > datetime.utcnow() raises TypeError when dt carries an offset and   *)
(* utcnow() carries none; the bare except turns that into "".              *)
ComputeReactivateAt(duration, now) ==
  IF duration.text \in DurationTokens
  THEN Timestamp(now + DurationDays(duration.text))
  ELSE IF duration.text = "permanent"
  THEN NoTime
  ELSE IF duration.parses /\ ~duration.aware /\ duration.day > now
  THEN Timestamp(duration.day)
  ELSE NoTime

(* The auto-reactivation block of the Firebase branch.                     *)
AutoReactivate(doc, now) ==
  IF /\ doc.status = "inactive"
     /\ doc.reactivate_at # NoTime
     /\ now >= doc.reactivate_at.day
  THEN UserDoc("active", "", NoDuration, NoTime)
  ELSE doc

(* _get_current_user: with Firebase configured the token is a Firebase ID  *)
(* token and the auto-reactivation block runs; otherwise the token is a    *)
(* JWT and the user document is returned as stored.                        *)
GetCurrentUser(us, u) ==
  IF firebase /\ u \in DOMAIN us
  THEN [us EXCEPT ![u] = AutoReactivate(@, clock)]
  ELSE us

ToggleResp(a, target, new_status) ==
  Resp("toggle_user_status", 200, a) @@
    [user_id |-> target, new_status |-> new_status]

(* toggle_user_status, after _require_admin_user.  reason is body.reason.  *)
ToggleUserStatus(a, target, duration, reason) ==
  /\ UNCHANGED faults
  /\ UNCHANGED <<products, nextPid, carts, orders, gatewayCalls, deductions,
                 reqs, vouchers, clock, firebase>>
  /\ LET seen == GetCurrentUser(users, a)
         new_status == IF seen[target].status = "active"
                       THEN "inactive"
                       ELSE "active"
         combined_reason == IF reason = "" THEN "No reason provided"
                            ELSE reason
     IN IF Role(a) # "admin"
        THEN /\ resp' = Err("toggle_user_status", 403)
             /\ users' = seen
             /\ mail' = <<>>
             /\ audit' = <<>>
        ELSE IF target \notin DOMAIN seen
        THEN /\ resp' = Err("toggle_user_status", 404)
             /\ users' = seen
             /\ mail' = <<>>
             /\ audit' = <<>>
        ELSE /\ users' =
                  [seen EXCEPT ![target] =
                     IF new_status = "inactive"
                     THEN UserDoc("inactive", combined_reason, duration,
                                  ComputeReactivateAt(duration, clock))
                     ELSE UserDoc("active", "", NoDuration, NoTime)]
             /\ resp' = ToggleResp(a, target, new_status)
             /\ mail' = AccountMails(target, new_status)
             /\ audit' = Audited(200,
                  AuditEvent(a, Role(a),
                             IF new_status = "inactive"
                             THEN "Deactivated account"
                             ELSE "Activated account",
                             target,
                             <<"New status", new_status, "Duration",
                               duration.text, "Reason", combined_reason>>))

(* GET /auth/me: the dependency _get_current_user and a read of the user.  *)
GetMe(u) ==
  /\ UNCHANGED faults
  /\ mail' = <<>>
  /\ UNCHANGED <<products, nextPid, carts, orders, gatewayCalls, deductions,
                 reqs, vouchers, clock, firebase>>
  /\ users' = GetCurrentUser(users, u)
  /\ resp' = Resp("get_me", 200, u)
  /\ audit' = <<>>

(* A day passes: datetime.utcnow() returns the next day from now on.       *)
Tick ==
  /\ UNCHANGED <<faults, mail>>
  /\ clock' = clock + 1
  /\ UNCHANGED <<products, nextPid, carts, orders, gatewayCalls, deductions,
                 reqs, resp, vouchers, audit, users, firebase>>

(***************************************************************************)
(* Cart: add_to_cart.                                                      *)
(***************************************************************************)
CartLine(pid, qty) == [product_id |-> pid, qty |-> qty]

HasLine(items, pid) == \E i \in 1..Len(items) : items[i].product_id = pid

FirstLine(items, pid) ==
  CHOOSE i \in 1..Len(items) :
    /\ items[i].product_id = pid
    /\ \A j \in 1..(i - 1) : items[j].product_id # pid

(* A variant that appends a new line even when the product has one.        *)
AddLine_Appends(items, pid, qty) == Append(items, CartLine(pid, qty))

AddLine(items, pid, qty) ==
  IF HasLine(items, pid)
  THEN [items EXCEPT ![FirstLine(items, pid)].qty = @ + qty]
  ELSE Append(items, CartLine(pid, qty))

AddToCart(u, pid, qty) ==
  /\ UNCHANGED faults
  /\ mail' = <<>>
  /\ users' = GetCurrentUser(users, u)
  /\ UNCHANGED <<clock, firebase>>
  /\ UNCHANGED <<vouchers, products, nextPid, orders,
                 gatewayCalls, deductions, reqs>>
  /\ IF Role(u) # "user"
     THEN /\ resp' = Err("add_to_cart", 403)
          /\ UNCHANGED carts
     ELSE IF ~(/\ pid \in DOMAIN products
               /\ ~products[pid].is_disabled
               /\ products[pid].status = "available")
     THEN /\ resp' = Err("add_to_cart", 404)
          /\ UNCHANGED carts
     ELSE IF qty < 1
     THEN /\ resp' = Err("add_to_cart", 400)
          /\ UNCHANGED carts
     ELSE /\ resp' = Resp("add_to_cart", 200, u)
          /\ IF u \notin DOMAIN carts
             THEN carts' = (u :> <<CartLine(pid, qty)>>) @@ carts
             ELSE carts' = [carts EXCEPT ![u] = AddLine(@, pid, qty)]
  /\ audit' = IF u \in DOMAIN carts
              THEN Audited(resp'.code,
                     AuditEvent(u, Role(u), "Added item to cart", pid,
                                <<"Qty", ToString(qty)>>))
              ELSE <<>>

(***************************************************************************)
(* Cart: update_cart_item.  The body is a free-form dict: isInt is FALSE   *)
(* when "qty" is missing, null or not an integer.                          *)
(***************************************************************************)
SetLine(items, pid, qty) ==
  [items EXCEPT ![FirstLine(items, pid)].qty = qty]

UpdateCartItem(u, pid, isInt, qty) ==
  /\ UNCHANGED faults
  /\ mail' = <<>>
  /\ users' = GetCurrentUser(users, u)
  /\ UNCHANGED <<clock, firebase>>
  /\ UNCHANGED <<vouchers, products, nextPid, orders,
                 gatewayCalls, deductions, reqs>>
  /\ IF ~isInt \/ qty < 1
     THEN /\ resp' = Err("update_cart_item", 400)
          /\ UNCHANGED carts
     ELSE IF u \notin DOMAIN carts
     THEN /\ resp' = Err("update_cart_item", 404)
          /\ UNCHANGED carts
     ELSE IF ~HasLine(carts[u], pid)
     THEN /\ resp' = Err("update_cart_item", 404)
          /\ UNCHANGED carts
     ELSE /\ resp' = Resp("update_cart_item", 200, u)
          /\ carts' = [carts EXCEPT ![u] = SetLine(@, pid, qty)]
  /\ audit' = Audited(resp'.code,
       AuditEvent(u, Role(u), "Updated cart item quantity", pid,
                  <<"Qty", ToString(qty)>>))

(***************************************************************************)
(* Cart: remove_from_cart.  Removing a product that has no line succeeds   *)
(* and leaves the items as they are.                                       *)
(***************************************************************************)
WithoutLine(items, pid) ==
  SelectSeq(items, LAMBDA it : it.product_id # pid)

RemoveFromCart(u, pid) ==
  /\ UNCHANGED faults
  /\ mail' = <<>>
  /\ users' = GetCurrentUser(users, u)
  /\ UNCHANGED <<clock, firebase>>
  /\ UNCHANGED <<vouchers, products, nextPid, orders,
                 gatewayCalls, deductions, reqs>>
  /\ IF u \notin DOMAIN carts
     THEN /\ resp' = Err("remove_from_cart", 404)
          /\ UNCHANGED carts
     ELSE /\ resp' = Resp("remove_from_cart", 200, u)
          /\ carts' = [carts EXCEPT ![u] = WithoutLine(@, pid)]
  /\ audit' = Audited(resp'.code,
       AuditEvent(u, Role(u), "Removed item from cart", pid, <<>>))


(***************************************************************************)
(* Checkout: checkout_order.                                               *)
(***************************************************************************)
(* The line total without the quantity factor.                             *)
LineAmount_NoQty(price, qty) == price

LineAmount(price, qty) == price * qty

OrderItem(pid, prod, qty) ==
  [product_id |-> pid, seller_id |-> prod.seller_id, name |-> prod.name,
   price |-> prod.price, qty |-> qty]

EmptyGroup(seller) ==
  [seller_id |-> seller, items |-> <<>>, total |-> 0, total_items |-> 0]

HasGroup(groups, seller) ==
  \E k \in 1..Len(groups) : groups[k].seller_id = seller

GroupIndex(groups, seller) ==
  CHOOSE k \in 1..Len(groups) : groups[k].seller_id = seller

(* One pass of the loop body over a cart line (server.py 5075-5113).       *)
AccumulateLine(groups, it, prods, sf) ==
  IF it.product_id \notin DOMAIN prods
  THEN groups
  ELSE IF sf # "" /\ prods[it.product_id].seller_id # sf
  THEN groups
  ELSE LET prod == prods[it.product_id]
           g1 == IF HasGroup(groups, prod.seller_id)
                 THEN groups
                 ELSE Append(groups, EmptyGroup(prod.seller_id))
           k == GroupIndex(g1, prod.seller_id)
       IN [g1 EXCEPT
             ![k].items = Append(@, OrderItem(it.product_id, prod, it.qty)),
             ![k].total = @ + LineAmount(prod.price, it.qty),
             ![k].total_items = @ + it.qty]

RECURSIVE FoldLines(_, _, _, _)
FoldLines(items, groups, prods, sf) ==
  IF items = <<>>
  THEN groups
  ELSE FoldLines(Tail(items), AccumulateLine(groups, Head(items), prods, sf),
                 prods, sf)

SellerGroups(items, prods, sf) == FoldLines(items, <<>>, prods, sf)

(* The payment method compared without lower-casing.                       *)
InitialOrderState_CaseSensitive(pm) ==
  IF pm = "cod"
  THEN [status |-> "confirmed", payment_status |-> "completed", paid_at |-> NOW]
  ELSE [status |-> "pending", payment_status |-> "pending", paid_at |-> NULL]

(* Initial status fields of an order, from the payment method.             *)
InitialOrderState(pm) ==
  IF Lower(pm) = "cod"
  THEN [status |-> "confirmed", payment_status |-> "completed", paid_at |-> NOW]
  ELSE [status |-> "pending", payment_status |-> "pending", paid_at |-> NULL]

OrderDoc(u, group, pm) ==
  [user_id |-> u,
   seller_id |-> group.seller_id,
   status |-> InitialOrderState(pm).status,
   total |-> group.total,
   total_items |-> group.total_items,
   payment_method |-> pm,
   payment_status |-> InitialOrderState(pm).payment_status,
   payment_intent_id |-> 0,
   paid_at |-> InitialOrderState(pm).paid_at,
   items |-> group.items,
   stock_deducted_sellers |-> {}]

CreatedOrders(u, groups, pm) ==
  [k \in 1..Len(groups) |-> OrderDoc(u, groups[k], pm)]

(* The gateway is asked for an intent only for this payment method.        *)
NeedsPaymentIntent(pm, created) == Lower(pm) = "paymongo" /\ created # <<>>

AmountCentavos(created) ==
  SumSeq([k \in 1..Len(created) |-> created[k].total]) * 100

(* paymongo.create_payment_intent_for_ewallet: every failure of the HTTP   *)
(* call is turned into a result with success = FALSE.                      *)
GatewayOutcomes == {"ok", "api_error", "no_checkout_url", "exception"}

CreatePaymentIntentForEwallet(outcome, id) ==
  IF outcome = "ok"
  THEN [success |-> TRUE, payment_intent_id |-> id]
  ELSE [success |-> FALSE, payment_intent_id |-> 0]

(* Cart left behind by a checkout (server.py 5188-5200).                   *)
RemainingItems(items, prods, sf) ==
  IF sf # ""
  THEN SelectSeq(items, LAMBDA it :
         /\ it.product_id \in DOMAIN prods
         /\ prods[it.product_id].seller_id # sf)
  ELSE <<>>

ZeroCounts(order) == [i \in 1..Len(order.items) |-> 0]

CheckoutOrder(u, pm, sf, outcome) ==
  /\ UNCHANGED faults
  /\ users' = GetCurrentUser(users, u)
  /\ UNCHANGED <<clock, firebase>>
  /\ UNCHANGED <<vouchers, products, nextPid, reqs>>
  /\ IF Role(u) # "user"
     THEN /\ resp' = Err("checkout_order", 403)
          /\ UNCHANGED <<carts, orders, gatewayCalls, deductions>>
     ELSE IF u \notin DOMAIN carts \/ carts[u] = <<>>
     THEN /\ resp' = Err("checkout_order", 400)
          /\ UNCHANGED <<carts, orders, gatewayCalls, deductions>>
     ELSE LET groups == SellerGroups(carts[u], products, sf)
              created == CreatedOrders(u, groups, pm)
              call == NeedsPaymentIntent(pm, created)
              result == CreatePaymentIntentForEwallet(outcome,
                                                      Len(gatewayCalls) + 1)
              stored == IF call /\ result.success
                        THEN [k \in 1..Len(created) |->
                                [created[k] EXCEPT !.payment_intent_id =
                                                     result.payment_intent_id]]
                        ELSE created
          IN IF sf # "" /\ groups = <<>>
             THEN /\ resp' = Err("checkout_order", 400)
                  /\ UNCHANGED <<carts, orders, gatewayCalls, deductions>>
             ELSE /\ orders' = orders \o stored
                  /\ deductions' = deductions \o
                       [k \in 1..Len(stored) |-> ZeroCounts(stored[k])]
                  /\ gatewayCalls' =
                       IF call
                       THEN Append(gatewayCalls,
                                   [amount |-> AmountCentavos(created),
                                    outcome |-> outcome])
                       ELSE gatewayCalls
                  /\ carts' = [carts EXCEPT ![u] =
                                 RemainingItems(@, products, sf)]
                  /\ resp' = [Resp("checkout_order",
                                     BestEffort(200, faults # {}), u) EXCEPT
                                !.filter = sf, !.method = pm,
                                !.created = Len(created),
                                !.intent = IF call /\ result.success
                                           THEN result.payment_intent_id
                                           ELSE 0]
  /\ mail' = IF resp'.created > 0
             THEN ReceiptMails(u, SubSeq(orders', Len(orders) + 1,
                                         Len(orders')), Len(orders) + 1)
             ELSE <<>>
  /\ audit' = Audited(resp'.code,
       AuditEvent(u, Role(u), "Placed order",
                  IF resp'.created > 0 THEN Len(orders) + 1 ELSE 0,
                  <<"Orders created", ToString(resp'.created)>>))


(***************************************************************************)
(* Product store: create_seller_product, update_seller_product,            *)
(* delete_seller_product, import_seller_products_csv.                      *)
(***************************************************************************)
CreateSellerProduct(s, price, stock) ==
  /\ UNCHANGED faults
  /\ mail' = <<>>
  /\ users' = GetCurrentUser(users, s)
  /\ UNCHANGED <<clock, firebase>>
  /\ UNCHANGED <<vouchers, carts, orders, gatewayCalls, deductions, reqs>>
  /\ IF Role(s) # "seller"
     THEN /\ resp' = Err("create_seller_product", 403)
          /\ UNCHANGED <<products, nextPid>>
     ELSE IF price <= 0 \/ stock < 0
     THEN /\ resp' = Err("create_seller_product", 400)
          /\ UNCHANGED <<products, nextPid>>
     ELSE /\ products' = (nextPid :> Product(s, price, stock, "available"))
                           @@ products
          /\ nextPid' = nextPid + 1
          /\ resp' = Resp("create_seller_product", 200, s)
  /\ audit' = <<>>

(* len(name.strip()) of the names the model sends.                         *)
NameLength(name) ==
  CASE name = "x" -> 1
    [] name = "" -> 0
    [] OTHER -> 4

(* hasName / hasPrice / hasStock: the field is present in the request      *)
(* body.                                                                   *)
UpdateSellerProduct(s, pid, hasName, name, hasPrice, price, hasStock, stock) ==
  /\ UNCHANGED faults
  /\ mail' = <<>>
  /\ users' = GetCurrentUser(users, s)
  /\ UNCHANGED <<clock, firebase>>
  /\ UNCHANGED <<vouchers, nextPid, carts, orders,
                 gatewayCalls, deductions, reqs>>
  /\ IF Role(s) # "seller"
     THEN /\ resp' = Err("update_seller_product", 403)
          /\ UNCHANGED products
     ELSE IF ~(pid \in DOMAIN products /\ products[pid].seller_id = s)
     THEN /\ resp' = Err("update_seller_product", 404)
          /\ UNCHANGED products
     ELSE IF \/ hasName /\ NameLength(name) < 2
             \/ hasPrice /\ price <= 0
             \/ hasStock /\ stock < 0
     THEN /\ resp' = Err("update_seller_product", 400)
          /\ UNCHANGED products
     ELSE /\ products' = [products EXCEPT
                            ![pid].name = IF hasName THEN name ELSE @,
                            ![pid].price = IF hasPrice THEN price ELSE @,
                            ![pid].stock_qty = IF hasStock THEN stock ELSE @]
          /\ resp' = Resp("update_seller_product", 200, s)
  /\ audit' = <<>>

(* hasDisabled: the body carries a disabled flag; without it the handler   *)
(* toggles the stored flag.                                                *)
DisableSellerProduct(s, pid, hasDisabled, disabled) ==
  /\ UNCHANGED faults
  /\ mail' = <<>>
  /\ users' = GetCurrentUser(users, s)
  /\ UNCHANGED <<clock, firebase>>
  /\ UNCHANGED <<vouchers, nextPid, carts, orders,
                 gatewayCalls, deductions, reqs>>
  /\ IF Role(s) # "seller"
     THEN /\ resp' = Err("disable_seller_product", 403)
          /\ UNCHANGED products
     ELSE IF ~(pid \in DOMAIN products /\ products[pid].seller_id = s)
     THEN /\ resp' = Err("disable_seller_product", 404)
          /\ UNCHANGED products
     ELSE /\ products' = [products EXCEPT
                            ![pid].is_disabled =
                               IF hasDisabled THEN disabled ELSE ~@]
          /\ resp' = Resp("disable_seller_product", 200, s)
  /\ audit' = <<>>

DeleteSellerProduct(s, pid) ==
  /\ UNCHANGED faults
  /\ mail' = <<>>
  /\ users' = GetCurrentUser(users, s)
  /\ UNCHANGED <<clock, firebase>>
  /\ UNCHANGED <<vouchers, nextPid, carts, orders,
                 gatewayCalls, deductions, reqs>>
  /\ IF Role(s) # "seller"
     THEN /\ resp' = Err("delete_seller_product", 403)
          /\ UNCHANGED products
     ELSE IF ~(pid \in DOMAIN products /\ products[pid].seller_id = s)
     THEN /\ resp' = Err("delete_seller_product", 404)
          /\ UNCHANGED products
     ELSE /\ products' = [q \in DOMAIN products \ {pid} |-> products[q]]
          /\ resp' = Resp("delete_seller_product", 200, s)
  /\ audit' = <<>>

(* A CSV file with one well-formed data row (name and category present,    *)
(* numeric price and stock_qty).  The row's values are stored as parsed.   *)
CsvRowProduct(s, price, stock) == Product(s, price, stock, "available")

ImportSellerProductsCsv(s, price, stock) ==
  /\ UNCHANGED faults
  /\ mail' = <<>>
  /\ users' = GetCurrentUser(users, s)
  /\ UNCHANGED <<clock, firebase>>
  /\ UNCHANGED <<vouchers, carts, orders, gatewayCalls, deductions, reqs>>
  /\ IF Role(s) # "seller"
     THEN /\ resp' = Err("import_seller_products_csv", 403)
          /\ UNCHANGED <<products, nextPid>>
     ELSE /\ products' = (nextPid :> CsvRowProduct(s, price, stock)) @@ products
          /\ nextPid' = nextPid + 1
          /\ resp' = Resp("import_seller_products_csv", 200, s)
  /\ audit' = <<>>

(***************************************************************************)
(* Order status: update_order_status (seller), cancel_order (customer).    *)
(***************************************************************************)
(* The seller's statuses with delivered admitted.                          *)
SellerStatuses_WithDelivered ==
  {"confirmed", "shipped", "cancelled", "delivered"}

SellerStatuses == {"confirmed", "shipped", "cancelled"}

SellerProductIds(prods, s) == {p \in DOMAIN prods : prods[p].seller_id = s}

(* The ownership test skipped.                                             *)
OwnsAnyItem_Skipped(items, pids) == TRUE

OwnsAnyItem(items, pids) ==
  \E i \in 1..Len(items) : items[i].product_id \in pids

(* The guard that also fires on a cancellation.                            *)
ShouldDeduct_OnCancel(status, s, deducted) ==
  status \in {"shipped", "delivered", "cancelled"} /\ s \notin deducted

(* The guard without the membership test.                                  *)
ShouldDeduct_NoGuard(status, s, deducted) ==
  status \in {"shipped", "delivered"}

ShouldDeduct(status, s, deducted) ==
  status \in {"shipped", "delivered"} /\ s \notin deducted

(* The subtraction without the floor.                                      *)
NewStock_NoFloor(current, qty) == current - qty

NewStock(current, qty) == Max(0, current - qty)

(* The product update without the sold_count increment.                    *)
ApplyDeduction_NoSold(prods, pid, newStock, qty) ==
  IF pid \in DOMAIN prods
  THEN [prods EXCEPT ![pid].stock_qty = newStock]
  ELSE prods

(* The product update with the sign of the increment flipped.              *)
ApplyDeduction_Decrement(prods, pid, newStock, qty) ==
  IF pid \in DOMAIN prods
  THEN [prods EXCEPT ![pid].stock_qty = newStock, ![pid].sold_count = @ - qty]
  ELSE prods

(* update_one on a product: $set stock_qty, $inc sold_count.               *)
ApplyDeduction(prods, pid, newStock, qty) ==
  IF pid \in DOMAIN prods
  THEN [prods EXCEPT ![pid].stock_qty = newStock, ![pid].sold_count = @ + qty]
  ELSE prods

(* The per-item loop run without interruption, from item i on.             *)
RECURSIVE DeductItems(_, _, _, _)
DeductItems(prods, items, pids, i) ==
  IF i > Len(items)
  THEN prods
  ELSE LET pid == items[i].product_id
       IN IF pid \notin pids \/ pid \notin DOMAIN prods
          THEN DeductItems(prods, items, pids, i + 1)
          ELSE DeductItems(
                 ApplyDeduction(prods, pid,
                                NewStock(prods[pid].stock_qty, items[i].qty),
                                items[i].qty),
                 items, pids, i + 1)

DeductedItems(prods, items, pids) ==
  {i \in 1..Len(items) :
     items[i].product_id \in pids /\ items[i].product_id \in DOMAIN prods}

CountDeductions(counts, hit) ==
  [i \in DOMAIN counts |-> IF i \in hit THEN counts[i] + 1 ELSE counts[i]]

UpdateOrderStatus(s, o, status) ==
  /\ UNCHANGED faults
  /\ users' = GetCurrentUser(users, s)
  /\ UNCHANGED <<clock, firebase>>
  /\ UNCHANGED <<vouchers, nextPid, carts, gatewayCalls, reqs>>
  /\ IF Role(s) # "seller"
     THEN /\ resp' = Err("update_order_status", 403)
          /\ UNCHANGED <<products, orders, deductions>>
     ELSE IF status \notin SellerStatuses
     THEN /\ resp' = Err("update_order_status", 400)
          /\ UNCHANGED <<products, orders, deductions>>
     ELSE IF o \notin 1..Len(orders)
     THEN /\ resp' = Err("update_order_status", 404)
          /\ UNCHANGED <<products, orders, deductions>>
     ELSE LET doc == orders[o]
              pids == SellerProductIds(products, s)
              deduct == ShouldDeduct(status, s, doc.stock_deducted_sellers)
          IN IF pids = {} \/ ~OwnsAnyItem(doc.items, pids)
             THEN /\ resp' = Err("update_order_status", 403)
                  /\ UNCHANGED <<products, orders, deductions>>
             ELSE /\ products' = IF deduct
                                 THEN DeductItems(products, doc.items, pids, 1)
                                 ELSE products
                  /\ deductions' =
                       IF deduct
                       THEN [deductions EXCEPT ![o] =
                               CountDeductions(@, DeductedItems(products,
                                                                doc.items, pids))]
                       ELSE deductions
                  /\ orders' = [orders EXCEPT
                       ![o].status = status,
                       ![o].stock_deducted_sellers =
                          IF deduct THEN @ \cup {s} ELSE @]
                  /\ resp' = [Resp("update_order_status",
                                     BestEffort(200, faults # {}), s) EXCEPT
                                !.order = o, !.status = status,
                                !.deducted = deduct]
  /\ mail' = IF resp'.order = o
             THEN StatusMails(status, orders[o].user_id, o)
             ELSE <<>>
  /\ audit' = Audited(resp'.code,
       AuditEvent(s, Role(s), "Updated order status", o,
                  <<"Status set to", status>>))

(* The update replacing the document's items along with its status.       *)
SetStatus_DropsItems(doc, status) ==
  [doc EXCEPT !.status = status, !.items = <<>>]

(* update_one with $set {status, updated_at}: the other fields stay.       *)
SetStatus(doc, status) == [doc EXCEPT !.status = status]

(* A cancellable set that also admits shipped orders.                      *)
CanCancel_Shipped(current_status) ==
  current_status \in {"pending", "confirmed", "shipped"}

CanCancel(current_status) == current_status \in {"pending", "confirmed"}

CancelOrder(u, o) ==
  /\ UNCHANGED faults
  /\ mail' = <<>>
  /\ users' = GetCurrentUser(users, u)
  /\ UNCHANGED <<clock, firebase>>
  /\ UNCHANGED <<vouchers, products, nextPid, carts,
                 gatewayCalls, deductions, reqs>>
  /\ IF Role(u) # "user"
     THEN /\ resp' = Err("cancel_order", 403)
          /\ UNCHANGED orders
     ELSE IF o \notin 1..Len(orders)
     THEN /\ resp' = Err("cancel_order", 404)
          /\ UNCHANGED orders
     ELSE IF orders[o].user_id # u
     THEN /\ resp' = Err("cancel_order", 403)
          /\ UNCHANGED orders
     ELSE IF ~CanCancel(orders[o].status)
     THEN /\ resp' = Err("cancel_order", 400)
          /\ UNCHANGED orders
     ELSE /\ orders' = [orders EXCEPT ![o] = SetStatus(@, "cancelled")]
          /\ resp' = [Resp("cancel_order", 200, u) EXCEPT
                        !.order = o, !.status = orders[o].status]
  /\ audit' = Audited(resp'.code,
       AuditEvent(u, Role(u), "Cancelled order", o,
                  <<"Previous status", resp'.status>>))


(***************************************************************************)
(* mark_order_delivered (buyer), update_admin_order_status (admin),        *)
(* payment_callback.                                                       *)
(***************************************************************************)
(* The delivery guard that also lets a confirmed order through.            *)
CanMarkDelivered_Confirmed(current_status) ==
  current_status \in {"confirmed", "shipped"}

CanMarkDelivered(current_status) == current_status = "shipped"

MarkOrderDelivered(u, o) ==
  /\ UNCHANGED faults
  /\ mail' = <<>>
  /\ users' = GetCurrentUser(users, u)
  /\ UNCHANGED <<clock, firebase>>
  /\ UNCHANGED <<vouchers, products, nextPid, carts, gatewayCalls,
                 deductions, reqs>>
  /\ IF ~(o \in 1..Len(orders) /\ orders[o].user_id = u)
     THEN /\ resp' = Err("mark_order_delivered", 404)
          /\ UNCHANGED orders
     ELSE IF ~CanMarkDelivered(orders[o].status)
     THEN /\ resp' = Err("mark_order_delivered", 400)
          /\ UNCHANGED orders
     ELSE /\ orders' = [orders EXCEPT ![o] = SetStatus(@, "delivered")]
          /\ resp' = [Resp("mark_order_delivered", 200, u) EXCEPT !.order = o]
  /\ audit' = Audited(resp'.code,
       AuditEvent(u, "user", "Marked order as delivered", o,
                  <<"User confirmed delivery">>))

ValidStatuses == {"pending", "confirmed", "shipped", "delivered", "cancelled"}

UpdateAdminOrderStatus(a, o, status) ==
  /\ UNCHANGED faults
  /\ mail' = <<>>
  /\ users' = GetCurrentUser(users, a)
  /\ UNCHANGED <<clock, firebase>>
  /\ UNCHANGED <<vouchers, products, nextPid, carts,
                 gatewayCalls, deductions, reqs>>
  /\ IF Role(a) # "admin"
     THEN /\ resp' = Err("update_admin_order_status", 403)
          /\ UNCHANGED orders
     ELSE IF o \notin 1..Len(orders)
     THEN /\ resp' = Err("update_admin_order_status", 404)
          /\ UNCHANGED orders
     ELSE IF status \notin ValidStatuses
     THEN /\ resp' = Err("update_admin_order_status", 400)
          /\ UNCHANGED orders
     ELSE /\ orders' = [orders EXCEPT ![o] = SetStatus(@, status)]
          /\ resp' = [Resp("update_admin_order_status", 200, a) EXCEPT
                        !.order = o, !.status = status]
  /\ audit' = <<>>

(* Status reported by the gateway for an intent -> order fields.           *)
CallbackFields(paymongo_status) ==
  IF paymongo_status = "succeeded"
  THEN [status |-> "confirmed", payment_status |-> "completed", paid_at |-> NOW]
  ELSE IF paymongo_status = "failed"
  THEN [status |-> "failed", payment_status |-> "failed", paid_at |-> NULL]
  ELSE [status |-> "pending", payment_status |-> "pending", paid_at |-> NULL]

(* intent = 0 is a missing payment_intent_id; retrieved = FALSE is a       *)
(* failed retrieve_payment_intent call.                                    *)
PaymentCallback(u, intent, retrieved, paymongo_status) ==
  /\ UNCHANGED faults
  /\ mail' = <<>>
  /\ users' = GetCurrentUser(users, u)
  /\ UNCHANGED <<clock, firebase>>
  /\ UNCHANGED <<vouchers, products, nextPid, carts,
                 gatewayCalls, deductions, reqs>>
  /\ IF intent = 0 \/ ~retrieved
     THEN /\ resp' = Err("payment_callback", 400)
          /\ UNCHANGED orders
     ELSE /\ orders' =
               [o \in 1..Len(orders) |->
                  IF orders[o].payment_intent_id = intent
                     /\ orders[o].user_id = u
                  THEN [orders[o] EXCEPT
                          !.status = CallbackFields(paymongo_status).status,
                          !.payment_status =
                             CallbackFields(paymongo_status).payment_status,
                          !.paid_at = CallbackFields(paymongo_status).paid_at]
                  ELSE orders[o]]
          /\ resp' = [Resp("payment_callback", 200, u) EXCEPT
                        !.intent = intent, !.status = paymongo_status]
  /\ audit' = Audited(resp'.code,
       AuditEvent(u, Role(u), "Payment callback processed", intent,
                  <<"PayMongo status", paymongo_status>>))


(***************************************************************************)
(* update_order_status as the sequence of store calls it makes.  Requests  *)
(* are served concurrently; each find_one / update_one is atomic on its    *)
(* document, and a request may die between any two of them.                *)
(***************************************************************************)
ReqIds == 1..MaxReqs

IdleReq ==
  [pc |-> "idle", seller |-> "", order |-> 0, status |-> "", items |-> <<>>,
   deducted_sellers |-> {}, pids |-> {}, deduct |-> FALSE, i |-> 0,
   current_stock |-> 0]

(* Validate the body and read the order document (server.py 5399-5410).    *)
ReqFindOrder(r, s, o, status) ==
  /\ reqs[r].pc = "idle"
  /\ UNCHANGED faults
  /\ mail' = <<>>
  /\ users' = GetCurrentUser(users, s)
  /\ UNCHANGED <<clock, firebase>>
  /\ UNCHANGED <<vouchers, products, nextPid, carts,
                 orders, gatewayCalls, deductions>>
  /\ IF Role(s) # "seller"
     THEN /\ resp' = Err("update_order_status", 403)
          /\ UNCHANGED reqs
     ELSE IF status \notin SellerStatuses
     THEN /\ resp' = Err("update_order_status", 400)
          /\ UNCHANGED reqs
     ELSE IF o \notin 1..Len(orders)
     THEN /\ resp' = Err("update_order_status", 404)
          /\ UNCHANGED reqs
     ELSE /\ reqs' = [reqs EXCEPT ![r] =
                        [IdleReq EXCEPT
                           !.pc = "find_products", !.seller = s, !.order = o,
                           !.status = status, !.items = orders[o].items,
                           !.deducted_sellers =
                              orders[o].stock_deducted_sellers]]
          /\ UNCHANGED resp
  /\ audit' = <<>>

(* Read the seller's product ids and authorize (server.py 5412-5425).      *)
ReqFindProducts(r) ==
  /\ reqs[r].pc = "find_products"
  /\ UNCHANGED faults
  /\ mail' = <<>>
  /\ UNCHANGED <<users, clock, firebase>>
  /\ UNCHANGED <<vouchers, products, nextPid, carts,
                 orders, gatewayCalls, deductions>>
  /\ LET q == reqs[r]
         pids == SellerProductIds(products, q.seller)
         deduct == ShouldDeduct(q.status, q.seller, q.deducted_sellers)
     IN IF pids = {} \/ ~OwnsAnyItem(q.items, pids)
        THEN /\ resp' = Err("update_order_status", 403)
             /\ reqs' = [reqs EXCEPT ![r] = IdleReq]
        ELSE /\ reqs' = [reqs EXCEPT
                           ![r].pids = pids, ![r].deduct = deduct,
                           ![r].i = 1,
                           ![r].pc = IF deduct THEN "find_product"
                                     ELSE "update_order"]
             /\ UNCHANGED resp
  /\ audit' = <<>>

(* Loop head and find_one of the item's product (server.py 5426-5438).     *)
ReqFindProduct(r) ==
  /\ reqs[r].pc = "find_product"
  /\ UNCHANGED <<faults, mail>>
  /\ UNCHANGED <<users, clock, firebase>>
  /\ UNCHANGED <<vouchers, products, nextPid, carts,
                 orders, gatewayCalls, deductions, resp>>
  /\ LET q == reqs[r]
     IN IF q.i > Len(q.items)
        THEN reqs' = [reqs EXCEPT
                        ![r].deducted_sellers = @ \cup {q.seller},
                        ![r].pc = "update_order"]
        ELSE IF q.items[q.i].product_id \notin q.pids
                \/ q.items[q.i].product_id \notin DOMAIN products
        THEN reqs' = [reqs EXCEPT ![r].i = @ + 1]
        ELSE reqs' = [reqs EXCEPT
                        ![r].current_stock =
                           products[q.items[q.i].product_id].stock_qty,
                        ![r].pc = "update_product"]
  /\ UNCHANGED audit

(* update_one of the product with the stock computed from the value read   *)
(* earlier (server.py 5439-5446).                                          *)
ReqUpdateProduct(r) ==
  /\ reqs[r].pc = "update_product"
  /\ UNCHANGED <<faults, mail>>
  /\ UNCHANGED <<users, clock, firebase>>
  /\ UNCHANGED <<vouchers, nextPid, carts, orders, gatewayCalls, resp>>
  /\ LET q == reqs[r]
         it == q.items[q.i]
     IN /\ products' = ApplyDeduction(products, it.product_id,
                                      NewStock(q.current_stock, it.qty),
                                      it.qty)
        /\ deductions' =
             IF it.product_id \in DOMAIN products
             THEN [deductions EXCEPT ![q.order] =
                     CountDeductions(@, {q.i})]
             ELSE deductions
        /\ reqs' = [reqs EXCEPT ![r].i = @ + 1, ![r].current_stock = 0,
                                ![r].pc = "find_product"]
  /\ UNCHANGED audit

(* update_one of the order and the response (server.py 5450-5506).         *)
ReqUpdateOrder(r) ==
  /\ reqs[r].pc = "update_order"
  /\ UNCHANGED faults
  /\ UNCHANGED <<users, clock, firebase>>
  /\ UNCHANGED <<vouchers, products, nextPid, carts, gatewayCalls, deductions>>
  /\ LET q == reqs[r]
     IN /\ orders' = [orders EXCEPT
             ![q.order].status = q.status,
             ![q.order].stock_deducted_sellers =
                IF q.deduct THEN q.deducted_sellers ELSE @]
        /\ resp' = [Resp("update_order_status", 200, q.seller) EXCEPT
                      !.order = q.order, !.status = q.status,
                      !.deducted = q.deduct]
        /\ reqs' = [reqs EXCEPT ![r] = IdleReq]
  /\ mail' = StatusMails(reqs[r].status, orders[reqs[r].order].user_id,
                         reqs[r].order)
  /\ audit' = Audited(200,
       AuditEvent(reqs[r].seller, Role(reqs[r].seller),
                  "Updated order status", reqs[r].order,
                  <<"Status set to", reqs[r].status>>))

(* The serving process dies in the middle of a request: its local state    *)
(* is lost, the documents it has written stay written.                     *)
ReqCrash(r) ==
  /\ reqs[r].pc # "idle"
  /\ UNCHANGED faults
  /\ mail' = <<>>
  /\ UNCHANGED <<users, clock, firebase>>
  /\ UNCHANGED <<vouchers, products, nextPid, carts,
                 orders, gatewayCalls, deductions>>
  /\ resp' = [Resp("update_order_status", 0, reqs[r].seller) EXCEPT
                !.order = reqs[r].order, !.status = reqs[r].status]
  /\ reqs' = [reqs EXCEPT ![r] = IdleReq]
  /\ audit' = <<>>

(***************************************************************************)
(* Vouchers: validate_voucher.  A voucher document keeps None as 0 in its  *)
(* optional numeric fields: the handler's truth tests treat both alike.    *)
(* Times are integers; amounts are whole currency units and a discount is  *)
(* kept in hundredths of a unit so that total * value / 100 is exact.      *)
(***************************************************************************)
Upper(s) ==
  CASE s = "save" -> "SAVE"
    [] OTHER -> s

Voucher(seller, code, active, expires, max, uses, limit, by, min, type, value) ==
  [seller_id |-> seller, code |-> code, active |-> active,
   expiration_date |-> expires,
   max_uses |-> max, current_uses |-> uses,
   per_user_limit |-> limit, used_by |-> by,
   min_order_amount |-> min,
   discount_type |-> type, value |-> value]

(* find_one({"code": code.upper(), "active": True}): 0 when none matches.  *)
FindActiveVoucher(vs, code) ==
  LET hits == {i \in DOMAIN vs : vs[i].code = Upper(code) /\ vs[i].active}
  IN IF hits = {} THEN 0 ELSE CHOOSE i \in hits : \A j \in hits : i <= j

(* The expiry test with a strict comparison.                               *)
Expired_Strict(v, now) ==
  v.expiration_date # 0 /\ v.expiration_date < now

Expired(v, now) ==
  v.expiration_date # 0 /\ v.expiration_date <= now

MaxUsesReached(v) ==
  v.max_uses # 0 /\ v.current_uses >= v.max_uses

(* used_count of the first used_by entry of user u, 0 when there is none.  *)
UserUsage(v, u) ==
  LET hits == {i \in 1..Len(v.used_by) : v.used_by[i].user_id = u}
  IN IF hits = {} THEN 0
     ELSE v.used_by[CHOOSE i \in hits : \A j \in hits : i <= j].used_count

UserLimitReached(v, u) ==
  v.per_user_limit # 0 /\ UserUsage(v, u) >= v.per_user_limit

BelowMinimum(v, order_total) ==
  v.min_order_amount # 0 /\ order_total < v.min_order_amount

(* The discount that ignores the discount type.                            *)
DiscountHundredths_Flat(discount_type, order_total, value) == value * 100

DiscountHundredths(discount_type, order_total, value) ==
  IF discount_type = "percentage"
  THEN order_total * value
  ELSE value * 100

VoucherError(detail) ==
  Resp("validate_voucher", 400, "") @@
    [detail |-> detail, valid |-> FALSE, discount_value |-> 0,
     discount_type |-> "", voucher_id |-> 0]

ValidateVoucher(u, code, order_total, now) ==
  /\ UNCHANGED faults
  /\ mail' = <<>>
  /\ users' = GetCurrentUser(users, u)
  /\ UNCHANGED <<clock, firebase>>
  /\ UNCHANGED <<products, nextPid, carts, orders, gatewayCalls, deductions,
                 reqs, vouchers>>
  /\ audit' = <<>>
  /\ LET id == FindActiveVoucher(vouchers, code)
         v == vouchers[id]
     IN resp' =
          IF id = 0
          THEN VoucherError("Invalid or inactive voucher code")
          ELSE IF Expired(v, now)
          THEN VoucherError("This voucher code has expired")
          ELSE IF MaxUsesReached(v)
          THEN VoucherError("This voucher code has reached its usage limit")
          ELSE IF UserLimitReached(v, u)
          THEN VoucherError("You have reached the usage limit for this code")
          ELSE IF BelowMinimum(v, order_total)
          THEN VoucherError("Minimum order amount required")
          ELSE Resp("validate_voucher", 200, u) @@
                 [detail |-> "", valid |-> TRUE,
                  discount_value |->
                    DiscountHundredths(v.discount_type, order_total, v.value),
                  discount_type |-> v.discount_type, voucher_id |-> id]

(***************************************************************************)
(* Vouchers: create_voucher, update_voucher.  The request bodies modelled  *)
(* leave expiration_date, max_uses, per_user_limit and min_order_amount    *)
(* out (None); a voucher's id is its index in vouchers.                    *)
(***************************************************************************)
CodeLength(code) ==
  CASE code = "no" -> 2
    [] OTHER -> 4

(* len(code) in 3..20 and code matches ^[A-Za-z0-9_-]+$.                   *)
ValidCode(code) ==
  /\ CodeLength(code) >= 3
  /\ CodeLength(code) <= 20
  /\ code # "a b!"

CodeTaken(vs, code, except) ==
  \E i \in DOMAIN vs : i # except /\ vs[i].code = Upper(code)

DiscountTypes == {"fixed", "percentage"}

VoucherResp(op, code, u, id) ==
  Resp(op, code, u) @@
    [detail |-> "", valid |-> FALSE, discount_value |-> 0,
     discount_type |-> "", voucher_id |-> id]

CreateVoucher(u, code, discount_type, value) ==
  /\ UNCHANGED <<products, nextPid, carts, orders, gatewayCalls, deductions,
                 reqs, clock, firebase, faults>>
  /\ users' = GetCurrentUser(users, u)
  /\ mail' = <<>>
  /\ audit' = <<>>
  /\ IF \/ ~ValidCode(code)
        \/ discount_type \notin DiscountTypes
        \/ value <= 0
        \/ discount_type = "percentage" /\ value > 100
        \/ CodeTaken(vouchers, code, 0)
     THEN /\ resp' = VoucherResp("create_voucher", 400, "", 0)
          /\ UNCHANGED vouchers
     ELSE /\ vouchers' = Append(vouchers,
               Voucher(u, Upper(code), TRUE, 0, 0, 0, 0, <<>>, 0,
                       discount_type, value))
          /\ resp' = VoucherResp("create_voucher", 200, u, Len(vouchers) + 1)

(* hasType / hasValue / hasActive: the field is present in the body.       *)
UpdateVoucher(u, id, hasType, discount_type, hasValue, value, hasActive, active) ==
  /\ UNCHANGED <<products, nextPid, carts, orders, gatewayCalls, deductions,
                 reqs, clock, firebase, faults>>
  /\ users' = GetCurrentUser(users, u)
  /\ mail' = <<>>
  /\ audit' = <<>>
  /\ IF id \notin DOMAIN vouchers
     THEN /\ resp' = VoucherResp("update_voucher", 404, "", 0)
          /\ UNCHANGED vouchers
     ELSE IF vouchers[id].seller_id # u
     THEN /\ resp' = VoucherResp("update_voucher", 403, "", 0)
          /\ UNCHANGED vouchers
     ELSE LET current_type == IF hasType THEN discount_type
                              ELSE vouchers[id].discount_type
          IN IF \/ hasType /\ discount_type \notin DiscountTypes
                \/ hasValue /\ value <= 0
                \/ hasValue /\ current_type = "percentage" /\ value > 100
                \/ ~(hasType \/ hasValue \/ hasActive)
             THEN /\ resp' = VoucherResp("update_voucher", 400, "", 0)
                  /\ UNCHANGED vouchers
             ELSE /\ vouchers' =
                       [vouchers EXCEPT
                          ![id].discount_type =
                             IF hasType THEN discount_type ELSE @,
                          ![id].value = IF hasValue THEN value ELSE @,
                          ![id].active = IF hasActive THEN active ELSE @]
                  /\ resp' = VoucherResp("update_voucher", 200, u, id)

(***************************************************************************)
(* Initial state: seller s1 has listed products 1 and 3, seller s2         *)
(* product 2, seller s3 nothing; nobody has a cart and no order exists.    *)
(***************************************************************************)
InitShop ==
  /\ products = (1 :> Product("s1", 1, 1, "available"))
                  @@ (2 :> Product("s2", 2, MaxStock, "available"))
                  @@ (3 :> Product("s1", 3, MaxStock, "available"))
  /\ nextPid = 4
  /\ carts = <<>>
  /\ orders = <<>>
  /\ gatewayCalls = <<>>
  /\ deductions = <<>>
  /\ reqs = [r \in ReqIds |-> IdleReq]
  /\ resp = Resp("", 0, "")
  /\ audit = <<>>

InitAccounts ==
  /\ users = [u \in Users |-> ActiveUser]
  /\ clock = 1
  /\ mail = <<>>

(* Every collaborator works.                                               *)
NoFaults == faults = {}

Init ==
  /\ InitShop
  /\ vouchers = <<>>
  /\ InitAccounts
  /\ firebase = TRUE
  /\ NoFaults

(***************************************************************************)
(* Guards that keep the explored state space finite.                       *)
(***************************************************************************)
CartFits(u, pid, qty) ==
  LET items == IF u \in DOMAIN carts THEN carts[u] ELSE <<>>
  IN SumSeq([i \in 1..Len(items) |-> items[i].qty]) + qty <= MaxCartQty

OrdersFit(u, sf, n) ==
  LET items == IF u \in DOMAIN carts THEN carts[u] ELSE <<>>
  IN Len(orders) + Len(SellerGroups(items, products, sf)) <= n

GatewayFits(pm) ==
  Lower(pm) = "paymongo" => Len(gatewayCalls) < MaxGatewayCalls

InCart(u, pid) == u \in DOMAIN carts /\ HasLine(carts[u], pid)

OrderIds == 1..MaxOrders

StatusOrderIds == 1..MaxPriorOrders

(***************************************************************************)
(* Spec: the order status machine.  Buyer u1 orders product 1; u1, another *)
(* customer u2, the sellers and the admin then act on the orders.          *)
(***************************************************************************)
AddToCartStep ==
  /\ Len(orders) < MaxPriorOrders
  /\ ~InCart("u1", 1)
  /\ AddToCart("u1", 1, 1)

CheckoutStep ==
  \E pm \in {"cod", "paymongo"} :
    /\ OrdersFit("u1", "", MaxPriorOrders)
    /\ GatewayFits(pm)
    /\ CheckoutOrder("u1", pm, "", "ok")

UpdateOrderStatusStep ==
  \E s \in {"s1", "s2"}, o \in StatusOrderIds,
     st \in SellerStatuses \cup {"delivered", "pending"} :
    UpdateOrderStatus(s, o, st)

CancelOrderStep ==
  \E u \in Buyers, o \in StatusOrderIds : CancelOrder(u, o)

MarkOrderDeliveredStep ==
  \E u \in Buyers, o \in StatusOrderIds : MarkOrderDelivered(u, o)

UpdateAdminOrderStatusStep ==
  \E o \in StatusOrderIds, st \in ValidStatuses \cup {"failed"} :
    UpdateAdminOrderStatus("admin", o, st)

PaymentCallbackStep ==
  \E i \in 1..MaxGatewayCalls, ps \in {"succeeded", "failed", "processing"} :
    PaymentCallback("u1", i, TRUE, ps)

Next ==
  \/ AddToCartStep
  \/ CheckoutStep
  \/ UpdateOrderStatusStep
  \/ CancelOrderStep
  \/ MarkOrderDeliveredStep
  \/ UpdateAdminOrderStatusStep
  \/ PaymentCallbackStep

Spec == Init /\ [][Next]_vars

(***************************************************************************)
(* SpecCheckout: carts of several lines and sellers, priced from the       *)
(* current product documents, checked out with and without seller filter.  *)
(***************************************************************************)
CheckoutAddToCartStep ==
  \E p \in 1..3, q \in 1..2 :
    /\ Len(orders) < MaxPriorOrders
    /\ CartFits("u1", p, q)
    /\ AddToCart("u1", p, q)

(* The seller edits or withdraws product 3 while it sits in the cart.       *)
CheckoutRepriceStep ==
  /\ 3 \in DOMAIN products
  /\ InCart("u1", 3)
  /\ UpdateSellerProduct("s1", 3, FALSE, "", TRUE, 5, FALSE, 0)

CheckoutDeleteStep ==
  /\ 3 \in DOMAIN products
  /\ InCart("u1", 3)
  /\ DeleteSellerProduct("s1", 3)

CheckoutCheckoutStep ==
  \E sf \in {"", "s1", "s2"} :
    /\ Len(orders) < MaxPriorOrders
    /\ CheckoutOrder("u1", "cod", sf, "ok")

NextCheckout ==
  \/ CheckoutAddToCartStep
  \/ CheckoutRepriceStep
  \/ CheckoutDeleteStep
  \/ CheckoutCheckoutStep

SpecCheckout == Init /\ [][NextCheckout]_vars

(***************************************************************************)
(* SpecPayment: checkout under every payment method and gateway outcome.   *)
(***************************************************************************)
PaymentAddToCartStep ==
  \E p \in 1..2 :
    /\ Len(orders) < MaxOrders
    /\ ~InCart("u1", p)
    /\ AddToCart("u1", p, 1)

PaymentCheckoutStep ==
  \E pm \in PaymentMethods, outcome \in GatewayOutcomes :
    /\ OrdersFit("u1", "", MaxOrders)
    /\ GatewayFits(pm)
    /\ CheckoutOrder("u1", pm, "", outcome)

NextPayment ==
  \/ PaymentAddToCartStep
  \/ PaymentCheckoutStep

SpecPayment == Init /\ [][NextPayment]_vars

(***************************************************************************)
(* SpecShip: sellers move orders between the statuses they may set; the    *)
(* first move to shipped deducts stock.                                    *)
(***************************************************************************)
ShipAddToCartStep ==
  \E p \in 1..3, q \in 1..2 :
    /\ Len(orders) < MaxPriorOrders
    /\ ~InCart("u1", p)
    /\ CartFits("u1", p, q)
    /\ AddToCart("u1", p, q)

ShipCheckoutStep ==
  /\ OrdersFit("u1", "", MaxPriorOrders)
  /\ CheckoutOrder("u1", "cod", "", "ok")

ShipUpdateOrderStatusStep ==
  \E s \in Sellers, o \in StatusOrderIds, st \in SellerStatuses :
    UpdateOrderStatus(s, o, st)

NextShip ==
  \/ ShipAddToCartStep
  \/ ShipCheckoutStep
  \/ ShipUpdateOrderStatusStep

SpecShip == Init /\ [][NextShip]_vars

(***************************************************************************)
(* SpecStore: the product store under its writers - product creation,      *)
(* edit, disabling, CSV import and the stock deduction of shipped orders - *)
(* next to the order operations that leave it alone.                       *)
(***************************************************************************)
CreateSellerProductStep ==
  \E price \in {0, 1}, stock \in {-1, 1} :
    /\ nextPid <= MaxProducts
    /\ CreateSellerProduct("s1", price, stock)

UpdateSellerProductStep ==
  \E p \in {1, 4}, stock \in {-1, MaxStock} :
    UpdateSellerProduct("s1", p, FALSE, "", FALSE, 0, TRUE, stock)

ImportSellerProductsCsvStep ==
  \E stock \in {-1, 1} :
    /\ nextPid <= MaxProducts
    /\ ImportSellerProductsCsv("s1", 1, stock)

StoreAddToCartStep ==
  /\ Len(orders) < MaxPriorOrders
  /\ ~InCart("u1", 1)
  /\ AddToCart("u1", 1, 2)

StoreCheckoutStep ==
  /\ OrdersFit("u1", "", MaxPriorOrders)
  /\ CheckoutOrder("u1", "cod", "", "ok")

StoreShipStep ==
  \E o \in StatusOrderIds : UpdateOrderStatus("s1", o, "shipped")

DisableSellerProductStep ==
  DisableSellerProduct("s1", 1, FALSE, FALSE)

StoreCancelOrderStep ==
  \E o \in StatusOrderIds : CancelOrder("u1", o)

StoreMarkOrderDeliveredStep ==
  \E o \in StatusOrderIds : MarkOrderDelivered("u1", o)

StoreAdminStep ==
  \E o \in StatusOrderIds : UpdateAdminOrderStatus("admin", o, "pending")

NextStore ==
  \/ CreateSellerProductStep
  \/ UpdateSellerProductStep
  \/ ImportSellerProductsCsvStep
  \/ StoreAddToCartStep
  \/ StoreCheckoutStep
  \/ StoreShipStep
  \/ DisableSellerProductStep
  \/ StoreCancelOrderStep
  \/ StoreMarkOrderDeliveredStep
  \/ StoreAdminStep

SpecStore == Init /\ [][NextStore]_vars

(***************************************************************************)
(* SpecConc: update_order_status requests of seller s1 served              *)
(* concurrently, store call by store call, with crashes.                   *)
(***************************************************************************)
ConcAddToCartStep ==
  /\ Len(orders) < MaxOrders
  /\ ~InCart("u1", 3)
  /\ AddToCart("u1", 3, 1)

ConcCheckoutStep ==
  /\ OrdersFit("u1", "", MaxOrders)
  /\ CheckoutOrder("u1", "cod", "", "ok")

ReqFindOrderStep ==
  \E r \in ReqIds, o \in OrderIds : ReqFindOrder(r, "s1", o, "shipped")

ReqFindProductsStep == \E r \in ReqIds : ReqFindProducts(r)

ReqFindProductStep == \E r \in ReqIds : ReqFindProduct(r)

ReqUpdateProductStep ==
  \E r \in ReqIds :
    /\ reqs[r].pc = "update_product"
    /\ deductions[reqs[r].order][reqs[r].i] < MaxDeductions
    /\ ReqUpdateProduct(r)

ReqUpdateOrderStep == \E r \in ReqIds : ReqUpdateOrder(r)

ReqCrashStep == \E r \in ReqIds : ReqCrash(r)

NextConc ==
  \/ ConcAddToCartStep
  \/ ConcCheckoutStep
  \/ ReqFindOrderStep
  \/ ReqFindProductsStep
  \/ ReqFindProductStep
  \/ ReqUpdateProductStep
  \/ ReqUpdateOrderStep
  \/ ReqCrashStep

SpecConc == Init /\ [][NextConc]_vars


(***************************************************************************)
(* SpecVoucher: validate_voucher applied to one stored voucher SAVE whose  *)
(* fields range over the values create_voucher and update_voucher accept   *)
(* and over the usage a redemption would have recorded.                    *)
(***************************************************************************)
OrderTotals == {1, 1000}

VoucherValues == {20, 150}

UsedBySets ==
  {<<>>} \cup {<<[user_id |-> "u1", used_count |-> c]>> :
              c \in {MaxUses - 1, MaxUses}}

StoredVouchers ==
  {Voucher("s1", "SAVE", a, e, m, c, p, ub, mo, t, val) :
     a \in BOOLEAN, e \in {0, 2}, m \in {0, MaxUses},
     c \in {0, MaxUses - 1, MaxUses},
     p \in {0, MaxUses}, ub \in UsedBySets, mo \in {0, 2},
     t \in {"fixed", "percentage"}, val \in VoucherValues}

InitVoucher ==
  /\ InitShop
  /\ InitAccounts
  /\ firebase = TRUE
  /\ NoFaults
  /\ vouchers \in {<<v>> : v \in {w \in StoredVouchers :
                                  w.discount_type = "percentage"
                                    => w.value <= 100}}

ValidateVoucherStep ==
  \E u \in Buyers, code \in {"save", "NOPE"},
     order_total \in OrderTotals, now \in 1..MaxTime :
    ValidateVoucher(u, code, order_total, now)

NextVoucher == ValidateVoucherStep

SpecVoucher == InitVoucher /\ [][NextVoucher]_vars


(***************************************************************************)
(* SpecAccounts: the admin deactivates and reactivates the accounts of     *)
(* buyer u1 and seller s1 under every kind of duration, days pass, and the *)
(* two users make authenticated requests.  The deployment authenticates    *)
(* either Firebase ID tokens or, without Firebase, JWTs.                   *)
(***************************************************************************)
CustomDays == {1, 2}

DurationInputs ==
  {Duration(t, FALSE, 0, FALSE) : t \in DurationTokens \cup {"permanent"}}
    \cup {Duration("custom", TRUE, d, aw) : d \in CustomDays, aw \in BOOLEAN}
    \cup {Duration("custom", FALSE, 0, FALSE)}

Moderated == {"u1", "s1"}

InitAccountsSpec ==
  /\ InitShop
  /\ vouchers = <<>>
  /\ InitAccounts
  /\ firebase \in BOOLEAN
  /\ NoFaults

ToggleUserStatusStep ==
  \E target \in Moderated \cup {"ghost"}, d \in DurationInputs :
    ToggleUserStatus("admin", target, d, "Spam")

GetMeStep == \E u \in Moderated : GetMe(u)

(* Any other authenticated request of the user, accepted or rejected.      *)
AccountsRequestStep ==
  \/ /\ ~InCart("u1", 1)
     /\ AddToCart("u1", 1, 1)
  \/ CancelOrder("u1", 1)
  \/ UpdateOrderStatus("s1", 1, "shipped")

TickStep ==
  /\ clock < MaxClock
  /\ Tick

NextAccounts ==
  \/ ToggleUserStatusStep
  \/ GetMeStep
  \/ AccountsRequestStep
  \/ TickStep

SpecAccounts == InitAccountsSpec /\ [][NextAccounts]_vars

(***************************************************************************)
(* SpecEffects: checkout and seller status updates while any subset of the *)
(* best-effort collaborators is failing.                                   *)
(***************************************************************************)
InitEffects ==
  /\ InitShop
  /\ vouchers = <<>>
  /\ InitAccounts
  /\ firebase = TRUE
  /\ faults \in SUBSET Services

EffectsAddToCartStep ==
  \E p \in 1..2 :
    /\ Len(orders) < MaxPriorOrders
    /\ ~InCart("u1", p)
    /\ AddToCart("u1", p, 1)

EffectsCheckoutStep ==
  \E sf \in {"", "s1"} :
    /\ OrdersFit("u1", sf, MaxOrders)
    /\ CheckoutOrder("u1", "cod", sf, "ok")

EffectsUpdateOrderStatusStep ==
  \E s \in {"s1", "s2"}, o \in OrderIds, st \in SellerStatuses :
    UpdateOrderStatus(s, o, st)

NextEffects ==
  \/ EffectsAddToCartStep
  \/ EffectsCheckoutStep
  \/ EffectsUpdateOrderStatusStep

SpecEffects == InitEffects /\ [][NextEffects]_vars

(***************************************************************************)
(* SpecVoucherStore: sellers create vouchers and edit them field by field. *)
(***************************************************************************)
VoucherBodyValues == {0} \cup VoucherValues

CreateVoucherStep ==
  \E code \in {"save", "GIFT", "no"},
     t \in DiscountTypes \cup {"bogus"}, val \in VoucherBodyValues :
    /\ Len(vouchers) < MaxVouchers
    /\ CreateVoucher("s1", code, t, val)

UpdateVoucherStep ==
  \E u \in {"s1", "s2"}, id \in 1..MaxVouchers,
     hasType, hasValue, hasActive \in BOOLEAN,
     t \in DiscountTypes, val \in VoucherBodyValues :
    UpdateVoucher(u, id, hasType, t, hasValue, val, hasActive, FALSE)

NextVoucherStore ==
  \/ CreateVoucherStep
  \/ UpdateVoucherStep

SpecVoucherStore == Init /\ [][NextVoucherStore]_vars

(***************************************************************************)
(* SpecSnapshot: after buyer u1 has ordered product 1, its seller renames, *)
(* reprices, disables and deletes the product while the order goes through *)
(* its status changes.                                                     *)
(***************************************************************************)
SnapshotAddToCartStep ==
  /\ Len(orders) < MaxPriorOrders
  /\ ~InCart("u1", 1)
  /\ AddToCart("u1", 1, 1)

SnapshotCheckoutStep ==
  /\ OrdersFit("u1", "", MaxPriorOrders)
  /\ GatewayFits("paymongo")
  /\ CheckoutOrder("u1", "paymongo", "", "ok")

SnapshotEditStep ==
  \E hasName \in BOOLEAN, name \in {"Tuyo", "x"} :
    UpdateSellerProduct("s1", 1, hasName, name, ~hasName, 5, FALSE, 0)

SnapshotDisableStep == DisableSellerProduct("s1", 1, FALSE, FALSE)

SnapshotDeleteStep == DeleteSellerProduct("s1", 1)

SnapshotStatusStep ==
  \E o \in StatusOrderIds :
    \/ UpdateOrderStatus("s1", o, "shipped")
    \/ CancelOrder("u1", o)
    \/ MarkOrderDelivered("u1", o)
    \/ UpdateAdminOrderStatus("admin", o, "pending")
    \/ PaymentCallback("u1", o, TRUE, "succeeded")

NextSnapshot ==
  \/ SnapshotAddToCartStep
  \/ SnapshotCheckoutStep
  \/ SnapshotEditStep
  \/ SnapshotDisableStep
  \/ SnapshotDeleteStep
  \/ SnapshotStatusStep

SpecSnapshot == Init /\ [][NextSnapshot]_vars

(***************************************************************************)
(* Properties.                                                             *)
(***************************************************************************)
RECURSIVE SumSet(_, _)
SumSet(S, f) ==
  IF S = {}
  THEN 0
  ELSE LET x == CHOOSE y \in S : TRUE
       IN f[x] + SumSet(S \ {x}, f)

CheckoutSucceeded == resp'.op = "checkout_order" /\ resp'.code = 200

NewOrderIds == (Len(orders) + 1)..Len(orders')

(* Lines of the buyer's cart, before the step, whose product exists.       *)
ResolvableLines(u) ==
  {i \in 1..Len(carts[u]) : carts[u][i].product_id \in DOMAIN products}

LinesOfSeller(u, s) ==
  {i \in ResolvableLines(u) : products[carts[u][i].product_id].seller_id = s}

CartSellers(u) ==
  {products[carts[u][i].product_id].seller_id : i \in ResolvableLines(u)}

(* C1: a successful checkout without seller filter of a cart whose         *)
(* resolvable lines belong to N distinct sellers inserts exactly N orders, *)
(* one per seller; each order's total is the sum of current price x qty    *)
(* over that seller's lines and total_items the sum of their qtys; and the *)
(* cart afterwards holds none of the consumed lines.                       *)
C1_CheckoutSplitsBySeller ==
  [][(CheckoutSucceeded /\ resp'.filter = "") =>
       LET u == resp'.actor
       IN /\ Len(orders') = Len(orders) + Cardinality(CartSellers(u))
          /\ \A o \in 1..Len(orders) : orders'[o] = orders[o]
          /\ \A s \in CartSellers(u) :
               \E o \in NewOrderIds :
                 /\ orders'[o].seller_id = s
                 /\ orders'[o].user_id = u
                 /\ orders'[o].total =
                      SumSet(LinesOfSeller(u, s),
                             [i \in LinesOfSeller(u, s) |->
                                products[carts[u][i].product_id].price
                                  * carts[u][i].qty])
                 /\ orders'[o].total_items =
                      SumSet(LinesOfSeller(u, s),
                             [i \in LinesOfSeller(u, s) |-> carts[u][i].qty])
                 /\ Len(orders'[o].items) = Cardinality(LinesOfSeller(u, s))
          /\ \A o1, o2 \in NewOrderIds :
               o1 # o2 => orders'[o1].seller_id # orders'[o2].seller_id
          /\ \A i \in ResolvableLines(u) :
               ~HasLine(carts'[u], carts[u][i].product_id)]_vars

(* A two-seller cart has been checked out into two orders, one of them at  *)
(* a price edited after the line was put in the cart.                      *)
C1_Witness ==
  /\ resp.op = "checkout_order" /\ resp.code = 200 /\ resp.filter = ""
  /\ resp.created = 2
  /\ Len(orders) = 2
  /\ orders[1].seller_id # orders[2].seller_id
  /\ \E o \in 1..2 : orders[o].total = 5 * 2
  /\ carts["u1"] = <<>>


UpdateSucceeded == resp'.op = "update_order_status" /\ resp'.code = 200

(* Items of order o whose product currently belongs to seller s.           *)
ItemsOfSeller(o, s) ==
  {i \in 1..Len(orders[o].items) :
     /\ orders[o].items[i].product_id \in DOMAIN products
     /\ products[orders[o].items[i].product_id].seller_id = s}

StockUntouched ==
  \A p \in DOMAIN products :
    /\ p \in DOMAIN products'
    /\ products'[p].stock_qty = products[p].stock_qty
    /\ products'[p].sold_count = products[p].sold_count

(* C2: when a seller sets the same order to shipped twice, the first call  *)
(* moves each of the seller's items from stock to sold_count and the       *)
(* second call leaves stock_qty and sold_count of every product unchanged; *)
(* no order item is ever deducted more than once.                          *)
C2_ShipTwiceDeductsOnce ==
  /\ [][(UpdateSucceeded /\ resp'.status = "shipped") =>
          LET o == resp'.order
              s == resp'.actor
          IN IF s \in orders[o].stock_deducted_sellers
             THEN StockUntouched /\ deductions' = deductions
             ELSE /\ s \in orders'[o].stock_deducted_sellers
                  /\ \A i \in ItemsOfSeller(o, s) :
                       LET pid == orders[o].items[i].product_id
                           qty == orders[o].items[i].qty
                       IN /\ products'[pid].sold_count =
                               products[pid].sold_count + qty
                          /\ products'[pid].stock_qty =
                               Max(0, products[pid].stock_qty - qty)
                          /\ deductions'[o][i] = deductions[o][i] + 1]_vars
  /\ [](\A o \in 1..Len(orders) :
          \A i \in DOMAIN deductions[o] : deductions[o][i] <= 1)

(* The seller has shipped an order a second time: the response reports no  *)
(* deduction and the item stands deducted once.                            *)
C2_Witness ==
  /\ resp.op = "update_order_status" /\ resp.code = 200
  /\ resp.status = "shipped" /\ ~resp.deducted
  /\ resp.actor \in orders[resp.order].stock_deducted_sellers
  /\ deductions[resp.order][1] = 1
  /\ products[orders[resp.order].items[1].product_id].sold_count =
       orders[resp.order].items[1].qty

(* C3: under concurrent update_order_status requests of one seller on one  *)
(* order, and under a crash inside the deduction loop followed by a retry, *)
(* no order item has its stock deducted more than once.                    *)
C3_DeductedAtMostOnce ==
  \A o \in 1..Len(orders) :
    \A i \in DOMAIN deductions[o] : deductions[o][i] <= 1

(* C4: every stock deduction of update_order_status leaves stock_qty >= 0; *)
(* an item qty above the remaining stock sets stock_qty to 0.              *)
C4_DeductionFloorsAtZero ==
  /\ [][(UpdateSucceeded /\ resp'.deducted) =>
          \A i \in ItemsOfSeller(resp'.order, resp'.actor) :
            LET pid == orders[resp'.order].items[i].product_id
                qty == orders[resp'.order].items[i].qty
            IN /\ products'[pid].stock_qty >= 0
               /\ qty > products[pid].stock_qty =>
                    products'[pid].stock_qty = 0]_vars
  /\ [](\A p \in DOMAIN products : products[p].stock_qty >= 0)

(* Product 1 had one unit in stock and an order of two units of it has     *)
(* been shipped.                                                           *)
C4_Witness ==
  /\ resp.op = "update_order_status" /\ resp.code = 200 /\ resp.deducted
  /\ orders[resp.order].items[1].product_id = 1
  /\ orders[resp.order].items[1].qty = 2
  /\ products[1].stock_qty = 0
  /\ products[1].sold_count = 2

(* C5: in every reachable state of the product store every product has    *)
(* stock_qty >= 0, whatever creations, edits, CSV imports and deductions   *)
(* produced it.                                                            *)
C5_StockNeverNegative ==
  \A p \in DOMAIN products : products[p].stock_qty >= 0

NoItemOfSeller(o, s) ==
  \A i \in 1..Len(orders[o].items) :
    \/ orders[o].items[i].product_id \notin DOMAIN products
    \/ products[orders[o].items[i].product_id].seller_id # s

(* C6: a seller's update_order_status on an order none of whose items is   *)
(* one of the seller's own products is rejected with 403 and leaves the    *)
(* order and all products unchanged.                                       *)
C6_ForeignSellerRejected ==
  [][\A s \in Sellers, o \in 1..Len(orders), st \in SellerStatuses :
       (/\ resp'.op = "update_order_status"
        /\ NoItemOfSeller(o, s)
        /\ UpdateOrderStatus(s, o, st)) =>
         /\ resp'.code = 403
         /\ orders' = orders
         /\ products' = products
         /\ deductions' = deductions]_vars

(* A seller has been refused on an existing order that holds no product    *)
(* of theirs.                                                              *)
C6_Witness ==
  /\ resp.op = "update_order_status" /\ resp.code = 403
  /\ Len(orders) > 0
  /\ \E s \in Sellers, o \in 1..Len(orders) : NoItemOfSeller(o, s)

(* C7: cancel_order by the order's customer succeeds exactly when the      *)
(* order is pending or confirmed, and then sets it to cancelled; from any  *)
(* other status it is rejected with 400 and the order is unchanged.        *)
C7_CancelOnlyPendingOrConfirmed ==
  [][\A u \in Buyers, o \in 1..Len(orders) :
       (orders[o].user_id = u /\ CancelOrder(u, o)) =>
         IF orders[o].status \in {"pending", "confirmed"}
         THEN /\ resp'.code = 200
              /\ orders' = [orders EXCEPT ![o].status = "cancelled"]
         ELSE /\ resp'.code = 400
              /\ orders' = orders]_vars

(* The customer has been refused the cancellation of a delivered order.    *)
C7_Witness ==
  /\ resp.op = "cancel_order" /\ resp.code = 400
  /\ \E o \in 1..Len(orders) :
       orders[o].user_id = "u1" /\ orders[o].status = "delivered"

IsCod(pm) == pm \in {"cod", "COD"}

(* C8: every order created by a checkout starts confirmed / completed with *)
(* paid_at set when the payment method is cod in any letter case, and      *)
(* pending / pending with paid_at null for every other payment method.     *)
C8_InitialStateFromPaymentMethod ==
  [][CheckoutSucceeded =>
       \A o \in NewOrderIds :
         /\ orders'[o].payment_method = resp'.method
         /\ IF IsCod(resp'.method)
            THEN /\ orders'[o].status = "confirmed"
                 /\ orders'[o].payment_status = "completed"
                 /\ orders'[o].paid_at = NOW
            ELSE /\ orders'[o].status = "pending"
                 /\ orders'[o].payment_status = "pending"
                 /\ orders'[o].paid_at = NULL]_vars

(* An upper-case COD order stands confirmed next to a pending e-wallet     *)
(* order.                                                                  *)
C8_Witness ==
  \E o1, o2 \in 1..Len(orders) :
    /\ orders[o1].payment_method = "COD"
    /\ orders[o1].status = "confirmed"
    /\ orders[o1].paid_at = NOW
    /\ orders[o2].payment_method = "gcash"
    /\ orders[o2].status = "pending"
    /\ orders[o2].paid_at = NULL

(* C9: every checkout with a payment method other than cod that creates an *)
(* order requests a payment intent for the summed total of the created     *)
(* orders, and the intent id the gateway returns is stored on every one of *)
(* them.                                                                   *)
C9_IntentForEveryNonCodCheckout ==
  [][(CheckoutSucceeded /\ ~IsCod(resp'.method) /\ resp'.created > 0) =>
       /\ Len(gatewayCalls') = Len(gatewayCalls) + 1
       /\ gatewayCalls'[Len(gatewayCalls')].amount =
            100 * SumSet(NewOrderIds, [o \in NewOrderIds |-> orders'[o].total])
       /\ gatewayCalls'[Len(gatewayCalls')].outcome = "ok" =>
            \A o \in NewOrderIds :
              /\ orders'[o].payment_intent_id = Len(gatewayCalls')
              /\ orders'[o].payment_intent_id = resp'.intent]_vars

GatewayCallFailed ==
  /\ Len(gatewayCalls') = Len(gatewayCalls) + 1
  /\ gatewayCalls'[Len(gatewayCalls')].outcome # "ok"

(* C10: a checkout whose payment-gateway call fails answers with an error  *)
(* (400 or 500) instead of success, and the cart still holds the items.    *)
C10_GatewayFailureSurfaces ==
  [][GatewayCallFailed =>
       /\ resp'.op = "checkout_order"
       /\ resp'.code \in {400, 500}
       /\ carts' = carts]_vars

(* No line of u's cart can be ordered: the cart is missing or empty, or    *)
(* no line resolves to a product of the selected seller.                   *)
NothingToOrder(u, sf) ==
  \/ u \notin DOMAIN carts
  \/ \A i \in 1..Len(carts[u]) :
       \/ carts[u][i].product_id \notin DOMAIN products
       \/ sf # "" /\ products[carts[u][i].product_id].seller_id # sf

(* C11: checkout_order is rejected, creating no order and leaving the cart *)
(* unchanged, whenever the cart is empty or no line remains to be ordered  *)
(* after resolving products and applying the seller filter; a successful   *)
(* checkout creates at least one order.                                    *)
C11_NothingToOrderRejected ==
  [][\A sf \in {""} \cup Sellers :
       (resp'.op = "checkout_order" /\ CheckoutOrder("u1", "cod", sf, "ok")) =>
         /\ NothingToOrder("u1", sf) =>
              /\ resp'.code # 200
              /\ orders' = orders
              /\ carts' = carts
         /\ resp'.code = 200 => Len(orders') > Len(orders)]_vars

(* Line it of a cart is a line of seller sf: it resolves to a product of   *)
(* that seller.                                                            *)
LineOfSeller(it, sf) ==
  /\ it.product_id \in DOMAIN products
  /\ products[it.product_id].seller_id = sf

(* C12: after a successful checkout with a seller filter the cart holds    *)
(* exactly the earlier lines that were not lines of that seller, each with *)
(* its qty; without a filter the cart is emptied.                          *)
C12_CartKeepsUnconsumedLines ==
  [][CheckoutSucceeded =>
       LET u == resp'.actor
       IN carts'[u] =
            IF resp'.filter = ""
            THEN <<>>
            ELSE SelectSeq(carts[u],
                           LAMBDA it : ~LineOfSeller(it, resp'.filter))]_vars

(* C13: validate_voucher answers 400, with the message of a condition that *)
(* holds, when the upper-cased code matches no active voucher, the voucher *)
(* has expired (expiration_date <= now), max_uses is reached, the user has *)
(* reached per_user_limit, or the total is below min_order_amount; when    *)
(* none of these holds it answers valid = true.                            *)
C13_VoucherRejections ==
  [][\A u \in Buyers, code \in {"save", "NOPE"},
        order_total \in OrderTotals, now \in 1..MaxTime :
       ValidateVoucher(u, code, order_total, now) =>
         LET v == vouchers[1]
             found == code = "save" /\ v.active
             expired == /\ found
                        /\ v.expiration_date # 0
                        /\ v.expiration_date <= now
             used_up == /\ found
                        /\ v.max_uses # 0
                        /\ v.current_uses >= v.max_uses
             user_usage == IF v.used_by # <<>> /\ v.used_by[1].user_id = u
                           THEN v.used_by[1].used_count
                           ELSE 0
             user_limit == /\ found
                           /\ v.per_user_limit # 0
                           /\ user_usage >= v.per_user_limit
             too_small == /\ found
                          /\ v.min_order_amount # 0
                          /\ order_total < v.min_order_amount
             rejected == \/ ~found \/ expired \/ used_up
                         \/ user_limit \/ too_small
         IN /\ rejected => resp'.code = 400 /\ ~resp'.valid
            /\ ~rejected => resp'.code = 200 /\ resp'.valid
            /\ resp'.detail = "Invalid or inactive voucher code" => ~found
            /\ resp'.detail = "This voucher code has expired" => expired
            /\ resp'.detail = "This voucher code has reached its usage limit"
                 => used_up
            /\ resp'.detail = "You have reached the usage limit for this code"
                 => user_limit
            /\ resp'.detail = "Minimum order amount required" => too_small
            /\ resp'.code = 400 => resp'.detail # ""]_vars

(* A user at their per-user limit has been refused an active voucher that  *)
(* still has uses left.                                                    *)
C13_Witness ==
  /\ resp.op = "validate_voucher" /\ resp.code = 400
  /\ resp.detail = "You have reached the usage limit for this code"
  /\ vouchers[1].active
  /\ vouchers[1].max_uses = 0
  /\ vouchers[1].per_user_limit = MaxUses
  /\ vouchers[1].used_by[1].used_count = MaxUses

(* C14: for a voucher that passes validation the discount is               *)
(* order_total * value / 100 for a percentage voucher and exactly value    *)
(* for a fixed voucher, whatever the order total.                          *)
C14_DiscountByType ==
  [][\A u \in Buyers, code \in {"save", "NOPE"},
        order_total \in OrderTotals, now \in 1..MaxTime :
       (ValidateVoucher(u, code, order_total, now) /\ resp'.code = 200) =>
         /\ resp'.discount_type = vouchers[1].discount_type
         /\ resp'.discount_type = "percentage" =>
              resp'.discount_value = order_total * vouchers[1].value
         /\ resp'.discount_type = "fixed" =>
              resp'.discount_value = 100 * vouchers[1].value]_vars

(* A percentage voucher of value 20 has given a discount of 200 (in        *)
(* hundredths: 20000) on a total of 1000.                                  *)
C14_Witness ==
  /\ resp.op = "validate_voucher" /\ resp.code = 200 /\ resp.valid
  /\ resp.discount_type = "percentage"
  /\ vouchers[1].value = 20
  /\ resp.discount_value = 200 * 100

(* C15: through update_order_status a seller sets an order's status only   *)
(* to confirmed, shipped or cancelled; a request for delivered or any      *)
(* other value is rejected with 400 and changes no order and no product.   *)
C15_SellerStatusesOnly ==
  [][resp'.op = "update_order_status" =>
       /\ resp'.code = 200 =>
            /\ resp'.status \in {"confirmed", "shipped", "cancelled"}
            /\ orders'[resp'.order].status = resp'.status
            /\ \A o \in 1..Len(orders) :
                 o # resp'.order => orders'[o] = orders[o]
       /\ resp'.code # 200 => orders' = orders /\ products' = products
       /\ \A s \in Sellers, o \in 1..Len(orders),
             st \in {"pending", "delivered"} :
            UpdateOrderStatus(s, o, st) =>
              /\ resp'.code = 400
              /\ orders' = orders
              /\ products' = products]_vars

(* The owning seller has asked for delivered on a shipped order and has    *)
(* been refused; the order is still shipped.                               *)
C15_Witness ==
  /\ resp.op = "update_order_status" /\ resp.code = 400
  /\ Len(orders) > 0
  /\ orders[1].status = "shipped"
  /\ orders[1].seller_id = "s1"

C17_FirstShipDeducts ==
  [][(/\ UpdateSucceeded
      /\ resp'.status = "shipped"
      /\ resp'.actor \notin orders[resp'.order].stock_deducted_sellers) =>
       LET o == resp'.order
           s == resp'.actor
           items == orders[o].items
           Hit(p) == {i \in 1..Len(items) :
                        items[i].product_id = p /\ products[p].seller_id = s}
       IN /\ DOMAIN products' = DOMAIN products
          /\ \A p \in DOMAIN products :
               IF Hit(p) = {}
               THEN products'[p] = products[p]
               ELSE LET qty == items[CHOOSE i \in Hit(p) : TRUE].qty
                        left == products[p].stock_qty - qty
                    IN products'[p] =
                         [products[p] EXCEPT
                            !.stock_qty = IF left < 0 THEN 0 ELSE left,
                            !.sold_count = @ + qty]
          /\ orders'[o].stock_deducted_sellers =
               orders[o].stock_deducted_sellers \cup {s}
          /\ resp'.deducted]_vars

(* Seller s1 has shipped an order of products 1 and 3 for the first time:  *)
(* both are deducted and product 2 of seller s2 is as it was listed.       *)
C17_Witness ==
  /\ resp.op = "update_order_status" /\ resp.code = 200
  /\ resp.status = "shipped" /\ resp.deducted /\ resp.actor = "s1"
  /\ Len(orders[resp.order].items) = 2
  /\ orders[resp.order].stock_deducted_sellers = {"s1"}
  /\ products[1].sold_count > 0
  /\ products[3].sold_count > 0
  /\ products[2].sold_count = 0
  /\ products[2].stock_qty = MaxStock

(* C18: when update_order_status requests for different orders of the same *)
(* product run concurrently, no deduction is lost: once the requests are   *)
(* done and the orders shipped, each item deducted once, the product's     *)
(* stock_qty is what the deductions counted in sold_count leave of the     *)
(* listed stock, floored at 0.                                             *)
C18_NoDeductionLost ==
  (/\ \A r \in ReqIds : reqs[r].pc = "idle"
   /\ \A o \in 1..Len(orders) :
        /\ orders[o].status = "shipped"
        /\ \A i \in DOMAIN deductions[o] : deductions[o][i] <= 1)
    => products[3].stock_qty =
         IF products[3].sold_count > MaxStock
         THEN 0
         ELSE MaxStock - products[3].sold_count

(* C19: a product's sold_count never decreases and changes only in the     *)
(* stock deduction of update_order_status; a new product starts with       *)
(* sold_count 0, and edit, disable, checkout, cancel, mark-delivered and   *)
(* admin status updates leave every sold_count as it was.                  *)
C19_SoldCountOnlyByDeduction ==
  [][/\ \A p \in DOMAIN products' :
          IF p \in DOMAIN products
          THEN /\ products'[p].sold_count >= products[p].sold_count
               /\ products'[p].sold_count # products[p].sold_count =>
                    /\ resp'.op = "update_order_status"
                    /\ resp'.code = 200
                    /\ resp'.deducted
          ELSE products'[p].sold_count = 0
     /\ resp'.op \in {"update_seller_product", "disable_seller_product",
                      "checkout_order", "cancel_order",
                      "mark_order_delivered", "update_admin_order_status"}
          => \A p \in DOMAIN products :
               products'[p].sold_count = products[p].sold_count]_vars

(* A product with units sold has afterwards been edited or disabled by its *)
(* seller and keeps its sold_count.                                        *)
C19_Witness ==
  /\ resp.op \in {"update_seller_product", "disable_seller_product"}
  /\ resp.code = 200
  /\ products[1].sold_count = 2

(* C20: every successful order status transition - seller                  *)
(* update_order_status, customer cancel_order, buyer mark_order_delivered  *)
(* and admin update_admin_order_status - appends an audit-log entry with   *)
(* the actor, the actor's role, an action label, the order id and a        *)
(* details string.                                                         *)
C20_TransitionsAudited ==
  [][(/\ resp'.code = 200
      /\ resp'.op \in {"update_order_status", "cancel_order",
                       "mark_order_delivered", "update_admin_order_status"})
       => /\ Len(audit') = 1
          /\ audit'[1].actor = resp'.actor
          /\ audit'[1].role = Role(resp'.actor)
          /\ audit'[1].action # ""
          /\ audit'[1].entity_id = resp'.order
          /\ audit'[1].details # <<>>]_vars

(* An authenticated request of user u: GET /auth/me or one of the shop     *)
(* requests the user sends.                                                *)
RequestOf(u) ==
  \/ GetMe(u)
  \/ AddToCart(u, 1, 1)
  \/ CancelOrder(u, 1)
  \/ UpdateOrderStatus(u, 1, "shipped")

TimedOut(u) ==
  /\ users[u].status = "inactive"
  /\ users[u].reactivate_at # NoTime

(* C21: deactivating an active user with duration 1d at day T sets status  *)
(* inactive and reactivate_at = T + 1 day; every authenticated request of  *)
(* that user at a time >= reactivate_at, under either token scheme, sets   *)
(* the status back to active and clears deactivation_reason, and no        *)
(* request before reactivate_at reactivates the account.                   *)
C21_TimedDeactivationExpires ==
  [][/\ \A t \in Moderated :
          (/\ users[t].status = "active"
           /\ ToggleUserStatus("admin", t, Duration("1d", FALSE, 0, FALSE),
                               "Spam")) =>
            /\ users'[t].status = "inactive"
            /\ users'[t].reactivate_at = [day |-> clock + 1, aware |-> FALSE]
     /\ \A u \in Moderated :
          (TimedOut(u) /\ RequestOf(u)) =>
            IF clock >= users[u].reactivate_at.day
            THEN /\ users'[u].status = "active"
                 /\ users'[u].deactivation_reason = ""
            ELSE users'[u] = users[u]]_vars

(* C22: on deactivation reactivate_at is now + N days for the tokens 1d,   *)
(* 3d, 7d, 14d, 30d, empty for permanent, and the given timestamp for a    *)
(* custom ISO timestamp strictly in the future; a user whose reactivate_at *)
(* is empty is never reactivated by a request of their own, only by an     *)
(* admin toggle.                                                           *)
C22_ReactivateAtFromDuration ==
  [][/\ \A t \in Moderated, d \in DurationInputs :
          (/\ users[t].status = "active"
           /\ ToggleUserStatus("admin", t, d, "Spam")) =>
            /\ d.text = "1d" => users'[t].reactivate_at.day = clock + 1
            /\ d.text = "3d" => users'[t].reactivate_at.day = clock + 3
            /\ d.text = "7d" => users'[t].reactivate_at.day = clock + 7
            /\ d.text = "14d" => users'[t].reactivate_at.day = clock + 14
            /\ d.text = "30d" => users'[t].reactivate_at.day = clock + 30
            /\ d.text = "permanent" => users'[t].reactivate_at = NoTime
            /\ (d.text = "custom" /\ d.parses /\ d.day > clock) =>
                 users'[t].reactivate_at.day = d.day
     /\ \A u \in Moderated :
          (/\ users[u].status = "inactive"
           /\ users[u].reactivate_at = NoTime
           /\ users'[u].status = "active") =>
            /\ resp'.op = "toggle_user_status"
            /\ resp'.code = 200
            /\ resp'.user_id = u]_vars

(* C23: a failure of receipt PDF generation, of mail sending or of audit   *)
(* logging never fails or rolls back the primary operation: a checkout     *)
(* with something to order still inserts its orders, clears the ordered    *)
(* lines from the cart and answers success, and a seller's permitted       *)
(* status update still stores the new status and answers success.          *)
C23_SideEffectFailuresSwallowed ==
  [][/\ (resp'.op = "checkout_order" /\ resp'.code # 200) =>
          \A sf \in {"", "s1"} :
            ~NothingToOrder("u1", sf) => ~CheckoutOrder("u1", "cod", sf, "ok")
     /\ CheckoutSucceeded =>
          LET u == resp'.actor
              sf == resp'.filter
          IN /\ Len(orders') =
                  Len(orders) + (IF sf = "" THEN Cardinality(CartSellers(u))
                                 ELSE 1)
             /\ \A o \in 1..Len(orders) : orders'[o] = orders[o]
             /\ \A o \in NewOrderIds : orders'[o].user_id = u
             /\ carts'[u] =
                  IF sf = "" THEN <<>>
                  ELSE SelectSeq(carts[u], LAMBDA it : ~LineOfSeller(it, sf))
     /\ (resp'.op = "update_order_status" /\ resp'.code # 200) =>
          \A s \in {"s1", "s2"}, o \in 1..Len(orders), st \in SellerStatuses :
            ~NoItemOfSeller(o, s) => ~UpdateOrderStatus(s, o, st)
     /\ UpdateSucceeded => orders'[resp'.order].status = resp'.status]_vars

(* With the PDF builder, the mail sender and the audit collection all      *)
(* failing, two orders have been placed and one of them has been shipped:  *)
(* the request succeeded, no mail went out and nothing was logged.         *)
C23_Witness ==
  /\ faults = Services
  /\ Len(orders) = 2
  /\ carts["u1"] = <<>>
  /\ resp.op = "update_order_status" /\ resp.code = 200
  /\ orders[resp.order].status = "shipped"
  /\ mail = <<>>
  /\ audit = <<>>

(* C24: a cancellation changes only the order's status: after a successful *)
(* customer cancel_order or seller transition to cancelled every product   *)
(* (stock_qty, sold_count) is as before and the order differs from before  *)
(* in its status alone - stock_deducted_sellers, payment_status and        *)
(* paid_at are kept - also when stock had been deducted for the order.     *)
C24_CancelChangesStatusOnly ==
  [][(/\ resp'.code = 200
      /\ \/ resp'.op = "cancel_order"
         \/ resp'.op = "update_order_status" /\ resp'.status = "cancelled") =>
       /\ products' = products
       /\ deductions' = deductions
       /\ orders' = [orders EXCEPT ![resp'.order].status = "cancelled"]
       /\ orders'[resp'.order].stock_deducted_sellers =
            orders[resp'.order].stock_deducted_sellers
       /\ orders'[resp'.order].payment_status =
            orders[resp'.order].payment_status
       /\ orders'[resp'.order].paid_at = orders[resp'.order].paid_at]_vars

(* The seller has cancelled an order whose stock had been deducted: the    *)
(* unit stays sold and the seller stays in stock_deducted_sellers.         *)
C24_Witness ==
  /\ resp.op = "update_order_status" /\ resp.code = 200
  /\ resp.status = "cancelled"
  /\ orders[resp.order].status = "cancelled"
  /\ orders[resp.order].stock_deducted_sellers = {"s1"}
  /\ orders[resp.order].payment_status = "completed"
  /\ products[1].stock_qty = 0
  /\ products[1].sold_count = 1

(* C25: every stored voucher has value > 0 and, when its discount_type is  *)
(* percentage, value <= 100, after any sequence of create_voucher and      *)
(* update_voucher calls, updates of discount_type alone or of value alone  *)
(* included.                                                               *)
C25_VoucherValueInRange ==
  \A i \in DOMAIN vouchers :
    /\ vouchers[i].value > 0
    /\ vouchers[i].discount_type = "percentage" => vouchers[i].value <= 100

(* C26: the items of an order are a snapshot: once the order exists, the   *)
(* price and the name of each of its items (and the list of items itself)  *)
(* never change, whether the product is edited, disabled or deleted or the *)
(* order changes status.                                                   *)
C26_OrderItemsImmutable ==
  [][\A o \in 1..Len(orders) :
       /\ o \in 1..Len(orders')
       /\ Len(orders'[o].items) = Len(orders[o].items)
       /\ \A i \in 1..Len(orders[o].items) :
            /\ orders'[o].items[i].price = orders[o].items[i].price
            /\ orders'[o].items[i].name = orders[o].items[i].name
            /\ orders'[o].items[i].product_id = orders[o].items[i].product_id
            /\ orders'[o].items[i].qty = orders[o].items[i].qty]_vars

(* The product of a delivered order has been renamed and repriced since    *)
(* the order was placed; the order's item still shows the old name and     *)
(* price.                                                                  *)
C26_Witness ==
  /\ Len(orders) = 1
  /\ orders[1].status = "delivered"
  /\ orders[1].items[1].price = 1
  /\ orders[1].items[1].name = "Daing"
  /\ 1 \in DOMAIN products
  /\ products[1].price = 5
  /\ products[1].name = "Tuyo"

(* C27: in every reachable state every order's status is one of pending,   *)
(* confirmed, shipped, delivered, cancelled, whichever of checkout, seller *)
(* update, customer cancel, mark-delivered, admin update and               *)
(* payment_callback wrote it.                                              *)
C27_StatusAmongFive ==
  \A o \in 1..Len(orders) :
    orders[o].status \in
      {"pending", "confirmed", "shipped", "delivered", "cancelled"}

(* A status change that advances along pending -> confirmed -> shipped ->  *)
(* delivered or cancels an order that is neither delivered nor cancelled.  *)
Advances(from, to) ==
  \/ <<from, to>> \in {<<"pending", "confirmed">>, <<"pending", "shipped">>,
                       <<"pending", "delivered">>, <<"confirmed", "shipped">>,
                       <<"confirmed", "delivered">>,
                       <<"shipped", "delivered">>}
  \/ from \in {"pending", "confirmed", "shipped"} /\ to = "cancelled"

(* C28: without an admin force-set an order's status never moves backward: *)
(* seller update_order_status, customer cancel_order, buyer                *)
(* mark_order_delivered and payment_callback leave a status as it is,      *)
(* advance it along pending -> confirmed -> shipped -> delivered or move   *)
(* it to cancelled, and never change a delivered or cancelled order.       *)
C28_StatusNeverMovesBack ==
  [][resp'.op \in {"update_order_status", "cancel_order",
                   "mark_order_delivered", "payment_callback"} =>
       \A o \in 1..Len(orders) :
         \/ orders'[o].status = orders[o].status
         \/ Advances(orders[o].status, orders'[o].status)]_vars

(* C29: in every reachable state an order that is shipped or delivered has *)
(* had its stock deducted: the seller of its items is a member of its      *)
(* stock_deducted_sellers, whether the seller, the admin or the buyer      *)
(* brought it to that status.                                              *)
C29_ShippedImpliesDeducted ==
  \A o \in 1..Len(orders) :
    orders[o].status \in {"shipped", "delivered"} =>
      orders[o].seller_id \in orders[o].stock_deducted_sellers

(***************************************************************************)
(* SpecCart: customer u1 fills, edits, empties and checks out one cart,    *)
(* with quantities below 1, a malformed quantity and a product id that was *)
(* never listed among the requests; seller s1 may take product 1 off sale. *)
(***************************************************************************)
(* The product passes add_to_cart's lookup: listed, enabled, available.    *)
Listed(pid) ==
  /\ pid \in DOMAIN products
  /\ ~products[pid].is_disabled
  /\ products[pid].status = "available"

WellFormedCart(items) ==
  /\ \A i \in 1..Len(items) : items[i].qty >= 1
  /\ \A i, j \in 1..Len(items) :
       items[i].product_id = items[j].product_id => i = j

(* The lines of a cart as a set of <<product_id, qty>> pairs.              *)
LinePairs(items) ==
  {<<items[i].product_id, items[i].qty>> : i \in 1..Len(items)}

QtyOf(items, pid) ==
  LET line == CHOOSE l \in LinePairs(items) : l[1] = pid IN line[2]

CartProductIds == {1, 2, MaxProducts}

CartQuantities == (0 - 1)..MaxCartQty

(* Units the customer has ordered so far; the cart and the orders together *)
(* hold at most MaxCartQty units.                                          *)
OrderedUnits ==
  SumSeq([o \in 1..Len(orders) |->
            SumSeq([i \in 1..Len(orders[o].items) |->
                      orders[o].items[i].qty])])

CartAddToCartStep ==
  \E pid \in CartProductIds, qty \in CartQuantities :
    /\ qty >= 1 => CartFits("u1", pid, qty + OrderedUnits)
    /\ AddToCart("u1", pid, qty)

CartUpdateItemStep ==
  \E pid \in CartProductIds, isInt \in BOOLEAN, qty \in CartQuantities :
    /\ ~isInt => qty = 0
    /\ qty >= 1 /\ InCart("u1", pid) =>
         CartFits("u1", pid,
                  qty - QtyOf(carts["u1"], pid) + OrderedUnits)
    /\ UpdateCartItem("u1", pid, isInt, qty)

CartRemoveStep == \E pid \in CartProductIds : RemoveFromCart("u1", pid)

CartCheckoutStep ==
  \E sf \in {"", "s1"} :
    /\ OrdersFit("u1", sf, MaxPriorOrders)
    /\ CheckoutOrder("u1", "cod", sf, "ok")

CartDisableStep == DisableSellerProduct("s1", 1, FALSE, FALSE)

NextCart ==
  \/ CartAddToCartStep
  \/ CartUpdateItemStep
  \/ CartRemoveStep
  \/ CartCheckoutStep
  \/ CartDisableStep

SpecCart == Init /\ [][NextCart]_vars

(* C30: after any sequence of add_to_cart, update_cart_item,               *)
(* remove_from_cart and checkout_order by one customer every line of the   *)
(* cart has qty >= 1 and no two lines share a product_id; add_to_cart of   *)
(* a listed product that already has a line adds the requested qty to     *)
(* that line and changes no other line; and a request with qty < 1 is      *)
(* never accepted and leaves the cart unchanged: update_cart_item answers  *)
(* 400, add_to_cart answers 400 once the product lookup has passed.        *)
C30_CartLinesPositiveAndUnique ==
  [][/\ \A u \in DOMAIN carts' : WellFormedCart(carts'[u])
     /\ resp'.op = "add_to_cart" =>
          \A pid \in CartProductIds, qty \in CartQuantities :
            AddToCart("u1", pid, qty) =>
              /\ qty < 1 => /\ resp'.code # 200
                            /\ carts' = carts
                            /\ Listed(pid) => resp'.code = 400
              /\ qty >= 1 /\ Listed(pid) /\ InCart("u1", pid) =>
                   /\ resp'.code = 200
                   /\ Len(carts'["u1"]) = Len(carts["u1"])
                   /\ QtyOf(carts'["u1"], pid)
                        = QtyOf(carts["u1"], pid) + qty
                   /\ \A l \in LinePairs(carts["u1"]) :
                        l[1] # pid => l \in LinePairs(carts'["u1"])
     /\ resp'.op = "update_cart_item" =>
          \A pid \in CartProductIds, isInt \in BOOLEAN,
             qty \in CartQuantities :
            UpdateCartItem("u1", pid, isInt, qty) /\ (~isInt \/ qty < 1) =>
              resp'.code = 400 /\ carts' = carts]_vars

(* add_to_cart of one more unit of a product that already had a line has   *)
(* just succeeded, and the line now holds more than that unit.             *)
C30_Witness ==
  /\ resp.op = "add_to_cart"
  /\ resp.code = 200
  /\ Len(audit) = 1
  /\ audit[1].details = <<"Qty", "1">>
  /\ "u1" \in DOMAIN carts
  /\ Len(carts["u1"]) >= 2
  /\ \E l \in LinePairs(carts["u1"]) :
       l[1] = audit[1].entity_id /\ l[2] >= 2

=============================================================================
